---- MODULE Spec2Model ----
(***************************************************************************)
(* A model of the grub sync engine: the row store of core/src/db.rs, its   *)
(* delta extraction (changes_since), its last-write-wins merge             *)
(* (apply_remote_changes, apply_tombstone, recompute_recipe_food) and the  *)
(* /sync handlers of cli/src/server.rs.                                    *)
(*                                                                         *)
(* Timestamps are RFC 3339 strings in the code and every comparison of     *)
(* them is a string comparison.  A timestamp is modelled as <<wall, off>>: *)
(* the wall-clock reading that is printed and the UTC offset printed after *)
(* it.  Its instant is wall - off.                                         *)
(***************************************************************************)
EXTENDS Integers, Sequences, FiniteSets, TLC

VARIABLES
    db,        \* db[p]: the database of participant p (a Store)
    tz,        \* tz[p]: UTC offset of participant p's local time zone
    clock,     \* the wall clock: the next instant a call to now() returns
    wm,        \* wm[c]: the watermark client c keeps (server_timestamp of its last response)
    used,      \* UUIDs handed out so far by Uuid::new_v4()
    lastReq,   \* the last POST /sync request body (after validation)
    lastResp,  \* the response to the last /sync request
    preDb,     \* the server store as it was when the last /sync request arrived
    hist,      \* bookkeeping of what has happened, read only by the properties
    mutex,     \* the holder of state.db (Arc<Mutex<Database>>) on the server, or Free
    task,      \* task[r]: where the handler of concurrent request r stands
    mig,       \* the database file under Database::migrate (SpecMigrate)
    api_key    \* AppState.api_key of the server: None (--no-auth) or Some(key)

vars == <<db, tz, clock, wm, used, lastReq, lastResp, preDb, hist, mutex, task, mig,
         api_key>>

(***************************************************************************)
(* Bounds                                                                  *)
(***************************************************************************)
MaxPush == 2           \* POST /sync requests in a run of SpecMerge
MaxPull == 1           \* GET /sync requests in a run of SpecMerge
MaxLocal == 2          \* local mutations in a run of SpecSync
MaxSync == 4           \* sync requests (push or pull) in a run of SpecSync
MaxOps == 3            \* requests and commands in a run of SpecLocal

Server == "S"
Clients == {"C1", "C2"}
Participants == {Server} \cup Clients

FoodUuids == {"f1", "f2"}
MealUuids == {"m1", "m2"}
RecipeUuids == {"r1"}
IngUuids == {"i1"}
Days == {0}
Dates == {1}
WeightUuids == {"w1", "w2"}
PushTimes == 2..5        \* instants an incoming row or tombstone may carry
FarFuture == 99          \* an instant later than any the clock reaches
EmptyUuid == ""
NoTs == <<>>               \* an absent timestamp (None)
EmptyTs == <<0, 0>>        \* the empty string "" in a timestamp column: it sorts first
NoRow == [none |-> TRUE]
NoBarcode == "NULL"      \* a food without a barcode (SQL NULL)
None == <<>>             \* Option<i64> None of a macro percentage (SQL NULL)
Some(x) == <<x>>         \* Option<i64> Some(x)

(***************************************************************************)
(* Timestamps                                                              *)
(***************************************************************************)
\* chrono's to_rfc3339 of the instant `inst` in a zone `off` hours east of UTC
Rfc3339(inst, off) == <<inst + off, off>>

\* DateTime::parse_from_rfc3339: the instant a timestamp string denotes
Instant(ts) == ts[1] - ts[2]

\* rank of the printed offset suffix in byte order: "+00:00" < "+01:00" < "-01:00"
SuffixRank(off) == IF off >= 0 THEN off ELSE 24 - off

\* a > b on two timestamp strings (Rust String ordering, SQLite TEXT ordering)
TsGreater(a, b) ==
    \/ a[1] > b[1]
    \/ a[1] = b[1] /\ SuffixRank(a[2]) > SuffixRank(b[2])

TsLess(a, b) == TsGreater(b, a)

\* Local::now().to_rfc3339() on participant p at instant t
LocalNow(p, t) == Rfc3339(t, tz[p])

\* Utc::now().to_rfc3339() at instant t
UtcNow(t) == Rfc3339(t, 0)

(***************************************************************************)
(* The store: one record per database, one set of rows per table.          *)
(* seq holds the AUTOINCREMENT counters (ids are never reused).            *)
(***************************************************************************)
EmptyStore ==
    [foods |-> {}, meals |-> {}, recipes |-> {}, ings |-> {},
     targets |-> {}, weights |-> {}, tombs |-> <<>>,
     seq |-> [foods |-> 0, meals |-> 0, recipes |-> 0, ings |-> 0]]

SeqToSet(s) == {s[i] : i \in 1..Len(s)}

UuidsIn(rows) == {r.uuid : r \in rows}

\* ORDER BY id
RECURSIVE SortById(_)
SortById(rows) ==
    IF rows = {} THEN <<>>
    ELSE LET r == CHOOSE x \in rows : \A y \in rows : x.id <= y.id
         IN <<r>> \o SortById(rows \ {r})

\* ORDER BY day_of_week
RECURSIVE SortByDay(_)
SortByDay(rows) ==
    IF rows = {} THEN <<>>
    ELSE LET r == CHOOSE x \in rows : \A y \in rows : x.day_of_week <= y.day_of_week
         IN <<r>> \o SortByDay(rows \ {r})

\* ORDER BY date
RECURSIVE SortByDate(_)
SortByDate(rows) ==
    IF rows = {} THEN <<>>
    ELSE LET r == CHOOSE x \in rows : \A y \in rows : x.date <= y.date
         IN <<r>> \o SortByDate(rows \ {r})

\* SELECT ... WHERE uuid = ?  (the uuid columns carry a UNIQUE index)
ByUuid(rows, u) == IF \E r \in rows : r.uuid = u
                   THEN CHOOSE r \in rows : r.uuid = u ELSE NoRow
\* SELECT ... WHERE id = ?
ById(rows, i) == IF \E r \in rows : r.id = i
                 THEN CHOOSE r \in rows : r.id = i ELSE NoRow

get_food_by_uuid(s, u) == ByUuid(s.foods, u)
get_meal_entry_by_uuid(s, u) == ByUuid(s.meals, u)
get_recipe_by_uuid(s, u) == ByUuid(s.recipes, u)
get_recipe_ingredient_by_uuid(s, u) == ByUuid(s.ings, u)

(***************************************************************************)
(* Delta extraction                                                        *)
(***************************************************************************)
\* the WHERE clause of every get_*_since query: updated_at > ?1
NewerThan(ts, since) == since = NoTs \/ TsGreater(ts, since)

\* ExportMealEntry rows: meal_entries JOIN foods ON me.food_id = f.id
ExportMeals(s) ==
    {[id |-> m.id, uuid |-> m.uuid, food_id |-> m.food_id,
      food_uuid |-> ById(s.foods, m.food_id).uuid, meal_type |-> m.meal_type,
      serving_g |-> m.serving_g,
      created_at |-> m.created_at, updated_at |-> m.updated_at]
        : m \in {x \in s.meals : ById(s.foods, x.food_id) # NoRow}}

\* ExportRecipe rows: recipes JOIN foods ON r.food_id = f.id
ExportRecipes(s) ==
    {[id |-> r.id, uuid |-> r.uuid, food_id |-> r.food_id,
      food_uuid |-> ById(s.foods, r.food_id).uuid, portions |-> r.portions,
      created_at |-> r.created_at, updated_at |-> r.updated_at]
        : r \in {x \in s.recipes : ById(s.foods, x.food_id) # NoRow}}

\* ExportRecipeIngredient rows: recipe_ingredients JOIN recipes JOIN foods.
\* The exported row has no updated_at field; it is kept here only to filter.
ExportIngs(s) ==
    {[id |-> i.id, uuid |-> i.uuid, recipe_id |-> i.recipe_id, food_id |-> i.food_id,
      recipe_uuid |-> ById(s.recipes, i.recipe_id).uuid,
      food_uuid |-> ById(s.foods, i.food_id).uuid,
      quantity_g |-> i.quantity_g, updated_at |-> i.updated_at]
        : i \in {x \in s.ings : /\ ById(s.recipes, x.recipe_id) # NoRow
                                /\ ById(s.foods, x.food_id) # NoRow}}

StripIng(i) == [id |-> i.id, uuid |-> i.uuid, recipe_id |-> i.recipe_id,
                food_id |-> i.food_id, recipe_uuid |-> i.recipe_uuid,
                food_uuid |-> i.food_uuid, quantity_g |-> i.quantity_g]

get_foods_since(s, since) ==
    SortById({f \in s.foods : NewerThan(f.updated_at, since)})
get_meal_entries_since(s, since) ==
    SortById({m \in ExportMeals(s) : NewerThan(m.updated_at, since)})
get_recipes_since(s, since) ==
    SortById({r \in ExportRecipes(s) : NewerThan(r.updated_at, since)})
get_recipe_ingredients_since(s, since) ==
    LET rows == SortById({i \in ExportIngs(s) : NewerThan(i.updated_at, since)})
    IN [k \in 1..Len(rows) |-> StripIng(rows[k])]
get_targets_since(s, since) ==
    SortByDay({t \in s.targets : NewerThan(t.updated_at, since)})
get_weight_entries_since(s, since) ==
    SortByDate({w \in s.weights : NewerThan(w.updated_at, since)})
get_tombstones_since(s, since) ==
    SelectSeq(s.tombs, LAMBDA t : NewerThan(t.deleted_at, since))

\* Database::changes_since: since = NoTs is the None arm (the full state)
changes_since(s, since, server_timestamp) ==
    [foods |-> get_foods_since(s, since),
     meal_entries |-> get_meal_entries_since(s, since),
     recipes |-> get_recipes_since(s, since),
     recipe_ingredients |-> get_recipe_ingredients_since(s, since),
     targets |-> get_targets_since(s, since),
     weight_entries |-> get_weight_entries_since(s, since),
     tombstones |-> get_tombstones_since(s, since),
     server_timestamp |-> server_timestamp]

(***************************************************************************)
(* Recipe materializer                                                     *)
(***************************************************************************)
RECURSIVE SumOver(_, _)
SumOver(rows, field) ==
    IF rows = {} THEN 0
    ELSE LET r == CHOOSE x \in rows : TRUE
         IN r[field] + SumOver(rows \ {r}, field)

\* get_recipe_ingredients: recipe_ingredients JOIN foods, with the per-ingredient
\* calories cal_100 * qty / 100
get_recipe_ingredients(s, recipe_id) ==
    {[id |-> i.id, quantity_g |-> i.quantity_g,
      calories |-> (ById(s.foods, i.food_id).calories_per_100g * i.quantity_g) \div 100]
        : i \in {x \in s.ings : x.recipe_id = recipe_id /\ ById(s.foods, x.food_id) # NoRow}}

\* recompute_recipe_food: rewrites the macros of the recipe's virtual food and
\* stamps it with `now`.  (A missing recipe is an Err; the callers modelled here
\* only pass recipes that exist.)
recompute_recipe_food(s, recipe_id, now) ==
    LET recipe == ById(s.recipes, recipe_id)
        ingredients == get_recipe_ingredients(s, recipe_id)
        total_weight == SumOver(ingredients, "quantity_g")
        total_cal == SumOver(ingredients, "calories")
        cal_100 == IF total_weight > 0 THEN (total_cal * 100) \div total_weight ELSE 0
        serving == IF total_weight > 0 THEN total_weight \div recipe.portions ELSE 0
    IN IF recipe = NoRow THEN s
       ELSE [s EXCEPT !.foods =
                {IF f.id = recipe.food_id
                 THEN [f EXCEPT !.calories_per_100g = cal_100,
                                !.default_serving_g = serving,
                                !.updated_at = now]
                 ELSE f : f \in @}]

(***************************************************************************)
(* Tombstones                                                              *)
(***************************************************************************)
\* record_tombstone: INSERT INTO sync_tombstones with deleted_at = now
record_tombstone(s, uuid, table_name, now) ==
    [s EXCEPT !.tombs = Append(@, [uuid |-> uuid, table_name |-> table_name,
                                   deleted_at |-> now])]

\* a wrong test: a tombstone also beats a row of the same timestamp
TombstoneWinsOrTies(updated_at, deleted_at) == ~TsGreater(updated_at, deleted_at)

\* the test every arm of apply_tombstone makes: row.updated_at < tombstone.deleted_at
TombstoneWins(updated_at, deleted_at) == TsLess(updated_at, deleted_at)

\* apply_tombstone: the store after it (Ok(true) iff the store changed)
apply_tombstone(s, tombstone) ==
    CASE tombstone.table_name = "foods" ->
            LET food == get_food_by_uuid(s, tombstone.uuid)
            IN IF food # NoRow /\ TombstoneWins(food.updated_at, tombstone.deleted_at)
               THEN [s EXCEPT !.foods = @ \ {food}]
               ELSE s
      [] tombstone.table_name = "meal_entries" ->
            LET local == get_meal_entry_by_uuid(s, tombstone.uuid)
            IN IF local # NoRow /\ TombstoneWins(local.updated_at, tombstone.deleted_at)
               THEN [s EXCEPT !.meals = @ \ {local}]
               ELSE s
      [] tombstone.table_name = "recipes" ->
            LET recipe == get_recipe_by_uuid(s, tombstone.uuid)
            IN IF recipe # NoRow /\ TombstoneWins(recipe.updated_at, tombstone.deleted_at)
               THEN [s EXCEPT !.ings = {i \in @ : i.recipe_id # recipe.id},
                              !.recipes = @ \ {recipe},
                              !.foods = {f \in @ : f.id # recipe.food_id}]
               ELSE s
      [] tombstone.table_name = "recipe_ingredients" ->
            LET local == get_recipe_ingredient_by_uuid(s, tombstone.uuid)
            IN IF local # NoRow /\ TombstoneWins(local.updated_at, tombstone.deleted_at)
               THEN [s EXCEPT !.ings = @ \ {local}]
               ELSE s
      [] OTHER -> s

\* a wrong step 6: the tombstone is stored only when it deleted something
MergeTombstoneIfApplied(s, tombstone) ==
    LET after == apply_tombstone(s, tombstone)
        exists == \E k \in 1..Len(after.tombs) :
                      /\ after.tombs[k].uuid = tombstone.uuid
                      /\ after.tombs[k].table_name = tombstone.table_name
    IN IF exists \/ after = s THEN after
       ELSE [after EXCEPT !.tombs = Append(@, tombstone)]

\* Step 6 for one tombstone: apply it, then store it unless a tombstone with the
\* same uuid and table_name is already stored
MergeTombstone(s, tombstone) ==
    LET after == apply_tombstone(s, tombstone)
        exists == \E k \in 1..Len(after.tombs) :
                      /\ after.tombs[k].uuid = tombstone.uuid
                      /\ after.tombs[k].table_name = tombstone.table_name
    IN IF exists THEN after
       ELSE [after EXCEPT !.tombs = Append(@, tombstone)]

(***************************************************************************)
(* Merge (Database::apply_remote_changes)                                  *)
(*                                                                         *)
(* The merge runs over an accumulator: the store s, the two HashMaps       *)
(* food_uuid_to_local_id (fmap) and recipe_uuid_to_local_id (rmap), and    *)
(* the HashSet recipes_to_recompute.  Local ids start at 1; 0 is None.     *)
(***************************************************************************)
EmptyMap == [u \in {} |-> 0]

\* err: a statement has failed and `?` has left apply_remote_changes.
\* fallback: a uuid missing from a HashMap is looked up in the database
\* (apply_remote_changes does, merge_import does not)
MergeStart(s) == [s |-> s, fmap |-> EmptyMap, rmap |-> EmptyMap,
                  recipes_to_recompute |-> {}, err |-> FALSE, fallback |-> TRUE]

\* the locals of merge_import: the same, without the lookup in the database
ImportStart(s) == [MergeStart(s) EXCEPT !.fallback = FALSE]

\* a foods table without the UNIQUE constraint on barcode
BarcodeNeverTaken(foods, barcode, except_id) == FALSE

\* foods.barcode is UNIQUE: a row other than except_id holds this barcode
BarcodeTaken(foods, barcode, except_id) ==
    barcode # NoBarcode /\ \E f \in foods : f.barcode = barcode /\ f.id # except_id

\* recipes.food_id is UNIQUE: a recipe other than except_id points at this food
RecipeFoodTaken(recipes, food_id, except_id) ==
    \E r \in recipes : r.food_id = food_id /\ r.id # except_id

FoldSeq(Op(_, _), acc, seq) ==
    LET RECURSIVE Go(_, _)
        Go(a, k) == IF k > Len(seq) THEN a ELSE Go(Op(a, seq[k]), k + 1)
    IN Go(acc, 1)

\* a wrong test: an incoming row of the same timestamp also wins
IncomingWinsOrTies(incoming_updated_at, local_updated_at) ==
    ~TsGreater(local_updated_at, incoming_updated_at)

\* the last-write-wins test of steps 1, 2, 3 and 7: incoming.updated_at > local.updated_at
IncomingWins(incoming_updated_at, local_updated_at) ==
    TsGreater(incoming_updated_at, local_updated_at)

\* food_uuid_to_local_id.get(uuid).or_else(|| get_food_by_uuid(uuid).map(|f| f.id));
\* in merge_import only food_uuid_to_local_id.get(uuid)
ResolveFood(st, food_uuid) ==
    IF food_uuid = EmptyUuid THEN 0
    ELSE IF food_uuid \in DOMAIN st.fmap THEN st.fmap[food_uuid]
    ELSE LET f == get_food_by_uuid(st.s, food_uuid)
         IN IF st.fallback /\ f # NoRow THEN f.id ELSE 0

\* recipe_uuid_to_local_id.get(uuid).or_else(|| get_recipe_by_uuid(uuid).map(|r| r.id));
\* in merge_import only recipe_uuid_to_local_id.get(uuid)
ResolveRecipe(st, recipe_uuid) ==
    IF recipe_uuid = EmptyUuid THEN 0
    ELSE IF recipe_uuid \in DOMAIN st.rmap THEN st.rmap[recipe_uuid]
    ELSE LET r == get_recipe_by_uuid(st.s, recipe_uuid)
         IN IF st.fallback /\ r # NoRow THEN r.id ELSE 0

\* Step 1, one incoming food
MergeFood(st, food) ==
    IF st.err \/ food.uuid = EmptyUuid THEN st
    ELSE LET existing == get_food_by_uuid(st.s, food.uuid)
         IN IF existing # NoRow
            THEN IF /\ IncomingWins(food.updated_at, existing.updated_at)
                    /\ BarcodeTaken(st.s.foods, food.barcode, existing.id)
                 THEN [st EXCEPT !.err = TRUE]
                 ELSE
                 [st EXCEPT
                    !.fmap = (food.uuid :> existing.id) @@ @,
                    !.s.foods =
                        IF IncomingWins(food.updated_at, existing.updated_at)
                        THEN (@ \ {existing}) \cup
                             {[existing EXCEPT
                                 !.barcode = food.barcode,
                                 !.calories_per_100g = food.calories_per_100g,
                                 !.default_serving_g = food.default_serving_g,
                                 !.source = food.source,
                                 !.updated_at = food.updated_at]}
                        ELSE @]
            ELSE IF BarcodeTaken(st.s.foods, food.barcode, 0)
            THEN [st EXCEPT !.err = TRUE]
            ELSE LET new_id == st.s.seq.foods + 1
                 IN [st EXCEPT
                       !.fmap = (food.uuid :> new_id) @@ @,
                       !.s.seq.foods = new_id,
                       !.s.foods = @ \cup
                           {[id |-> new_id, uuid |-> food.uuid,
                             barcode |-> food.barcode,
                             calories_per_100g |-> food.calories_per_100g,
                             default_serving_g |-> food.default_serving_g,
                             source |-> food.source,
                             created_at |-> food.created_at,
                             updated_at |-> food.updated_at]}]

\* a wrong step 2: an entry whose food is unknown is stored all the same
MergeMealUnresolved(st, entry) ==
    LET food_id == ResolveFood(st, entry.food_uuid)
        existing == get_meal_entry_by_uuid(st.s, entry.uuid)
    IN IF st.err \/ entry.uuid = EmptyUuid THEN st
       ELSE IF existing # NoRow
       THEN IF IncomingWins(entry.updated_at, existing.updated_at)
            THEN [st EXCEPT !.s.meals = (@ \ {existing}) \cup
                     {[existing EXCEPT !.food_id = food_id,
                                       !.meal_type = entry.meal_type,
                                       !.serving_g = entry.serving_g,
                                       !.updated_at = entry.updated_at]}]
            ELSE st
       ELSE LET new_id == st.s.seq.meals + 1
            IN [st EXCEPT
                  !.s.seq.meals = new_id,
                  !.s.meals = @ \cup
                      {[id |-> new_id, uuid |-> entry.uuid, food_id |-> food_id,
                        meal_type |-> entry.meal_type,
                        serving_g |-> entry.serving_g,
                        created_at |-> entry.created_at,
                        updated_at |-> entry.updated_at]}]

\* Step 2, one incoming meal entry
MergeMeal(st, entry) ==
    LET food_id == ResolveFood(st, entry.food_uuid)
        existing == get_meal_entry_by_uuid(st.s, entry.uuid)
    IN IF st.err \/ entry.uuid = EmptyUuid \/ food_id = 0 THEN st
       ELSE IF existing # NoRow
       THEN IF IncomingWins(entry.updated_at, existing.updated_at)
            THEN [st EXCEPT !.s.meals = (@ \ {existing}) \cup
                     {[existing EXCEPT !.food_id = food_id,
                                       !.meal_type = entry.meal_type,
                                       !.serving_g = entry.serving_g,
                                       !.updated_at = entry.updated_at]}]
            ELSE st
       ELSE LET new_id == st.s.seq.meals + 1
            IN [st EXCEPT
                  !.s.seq.meals = new_id,
                  !.s.meals = @ \cup
                      {[id |-> new_id, uuid |-> entry.uuid, food_id |-> food_id,
                        meal_type |-> entry.meal_type,
                        serving_g |-> entry.serving_g,
                        created_at |-> entry.created_at,
                        updated_at |-> entry.updated_at]}]

\* Step 3, one incoming recipe
MergeRecipe(st, recipe) ==
    LET food_id == ResolveFood(st, recipe.food_uuid)
        existing == get_recipe_by_uuid(st.s, recipe.uuid)
    IN IF st.err \/ recipe.uuid = EmptyUuid \/ food_id = 0 THEN st
       ELSE IF existing # NoRow
       THEN IF /\ IncomingWins(recipe.updated_at, existing.updated_at)
               /\ RecipeFoodTaken(st.s.recipes, food_id, existing.id)
            THEN [st EXCEPT !.err = TRUE]
            ELSE
            [st EXCEPT
               !.rmap = (recipe.uuid :> existing.id) @@ @,
               !.s.recipes =
                   IF IncomingWins(recipe.updated_at, existing.updated_at)
                   THEN (@ \ {existing}) \cup
                        {[existing EXCEPT !.food_id = food_id,
                                          !.portions = recipe.portions,
                                          !.updated_at = recipe.updated_at]}
                   ELSE @]
       ELSE IF RecipeFoodTaken(st.s.recipes, food_id, 0)
       THEN [st EXCEPT !.err = TRUE]
       ELSE LET new_id == st.s.seq.recipes + 1
            IN [st EXCEPT
                  !.rmap = (recipe.uuid :> new_id) @@ @,
                  !.s.seq.recipes = new_id,
                  !.s.recipes = @ \cup
                      {[id |-> new_id, uuid |-> recipe.uuid, food_id |-> food_id,
                        portions |-> recipe.portions,
                        created_at |-> recipe.created_at,
                        updated_at |-> recipe.updated_at]}]

\* a wrong step 4: the replaced row is stamped with the local now as well
MergeIngRestamped(st, ing, now) ==
    LET recipe_id == ResolveRecipe(st, ing.recipe_uuid)
        food_id == ResolveFood(st, ing.food_uuid)
        existing == get_recipe_ingredient_by_uuid(st.s, ing.uuid)
        new_id == IF existing # NoRow THEN existing.id ELSE st.s.seq.ings + 1
    IN IF st.err \/ ing.uuid = EmptyUuid \/ recipe_id = 0 \/ food_id = 0 THEN st
       ELSE [st EXCEPT
               !.recipes_to_recompute = @ \cup {recipe_id},
               !.s.seq.ings = IF existing # NoRow THEN @ ELSE new_id,
               !.s.ings = (@ \ {existing}) \cup
                   {[id |-> new_id, uuid |-> ing.uuid, recipe_id |-> recipe_id,
                     food_id |-> food_id, quantity_g |-> ing.quantity_g,
                     updated_at |-> now]}]

\* Step 4, one incoming recipe ingredient: replace by uuid without a timestamp
\* test; an inserted row is stamped with the local now
MergeIng(st, ing, now) ==
    LET recipe_id == ResolveRecipe(st, ing.recipe_uuid)
        food_id == ResolveFood(st, ing.food_uuid)
        existing == get_recipe_ingredient_by_uuid(st.s, ing.uuid)
    IN IF st.err \/ ing.uuid = EmptyUuid \/ recipe_id = 0 \/ food_id = 0 THEN st
       ELSE IF existing # NoRow
       THEN [st EXCEPT
               !.recipes_to_recompute = @ \cup {recipe_id},
               !.s.ings = (@ \ {existing}) \cup
                   {[existing EXCEPT !.recipe_id = recipe_id, !.food_id = food_id,
                                     !.quantity_g = ing.quantity_g]}]
       ELSE LET new_id == st.s.seq.ings + 1
            IN [st EXCEPT
                  !.recipes_to_recompute = @ \cup {recipe_id},
                  !.s.seq.ings = new_id,
                  !.s.ings = @ \cup
                      {[id |-> new_id, uuid |-> ing.uuid, recipe_id |-> recipe_id,
                        food_id |-> food_id, quantity_g |-> ing.quantity_g,
                        updated_at |-> now]}]

\* the loop over recipes_to_recompute that follows step 4
RECURSIVE RecomputeAll(_, _, _)
RecomputeAll(s, ids, now) ==
    IF ids = {} THEN s
    ELSE LET i == CHOOSE x \in ids : TRUE
         IN RecomputeAll(recompute_recipe_food(s, i, now), ids \ {i}, now)

\* Step 5, one incoming target (keyed by day_of_week)
MergeTarget(s, incoming_target, now) ==
    LET local == {t \in s.targets : t.day_of_week = incoming_target.day_of_week}
        should_update ==
            IF incoming_target.updated_at # NoTs /\ local # {}
            THEN \A t \in local : TsGreater(incoming_target.updated_at, t.updated_at)
            ELSE TRUE
        updated_at == IF incoming_target.updated_at # NoTs
                      THEN incoming_target.updated_at ELSE now
    IN IF should_update
       THEN [s EXCEPT !.targets = (@ \ local) \cup
                {[incoming_target EXCEPT !.updated_at = updated_at]}]
       ELSE s

\* Step 7, one incoming weight entry (keyed by date)
MergeWeight(s, entry) ==
    LET existing == {w \in s.weights : w.date = entry.date}
    IN IF entry.uuid = EmptyUuid THEN s
       ELSE IF existing # {}
       THEN IF \A w \in existing : IncomingWins(entry.updated_at, w.updated_at)
            THEN [s EXCEPT !.weights =
                     {IF w \in existing
                      THEN [w EXCEPT !.uuid = entry.uuid, !.weight_kg = entry.weight_kg,
                                     !.updated_at = entry.updated_at]
                      ELSE w : w \in @}]
            ELSE s
       ELSE [s EXCEPT !.weights = @ \cup {entry}]

\* Database::apply_remote_changes, steps 1 to 7 in the order of the code;
\* every Local::now() it reads is `now`.  There is no transaction: when a
\* statement fails (ok = FALSE) the rows written before it stay written.
MergeResult(s, req, now) ==
    LET st1 == FoldSeq(MergeFood, MergeStart(s), req.foods)
        st2 == FoldSeq(MergeMeal, st1, req.meal_entries)
        st3 == FoldSeq(MergeRecipe, st2, req.recipes)
        st4 == FoldSeq(LAMBDA a, x : MergeIng(a, x, now), st3, req.recipe_ingredients)
        s4 == RecomputeAll(st4.s, st4.recipes_to_recompute, now)
        s5 == FoldSeq(LAMBDA a, x : MergeTarget(a, x, now), s4, req.targets)
        s6 == FoldSeq(MergeTombstone, s5, req.tombstones)
    IN IF st4.err THEN [s |-> st4.s, ok |-> FALSE]
       ELSE [s |-> FoldSeq(MergeWeight, s6, req.weight_entries), ok |-> TRUE]

\* the store apply_remote_changes leaves behind
apply_remote_changes(s, req, now) == MergeResult(s, req, now).s

\* the steps of apply_remote_changes, one at a time, applied to the locals st:
\* steps 1 to 4, the recompute loop that follows step 4, then steps 5 to 7
MergeSteps == 8
MergeStep(k, st, req, now) ==
    CASE k = 1 -> FoldSeq(MergeFood, st, req.foods)
      [] k = 2 -> FoldSeq(MergeMeal, st, req.meal_entries)
      [] k = 3 -> FoldSeq(MergeRecipe, st, req.recipes)
      [] k = 4 -> FoldSeq(LAMBDA a, x : MergeIng(a, x, now), st, req.recipe_ingredients)
      [] k = 5 -> [st EXCEPT !.s = RecomputeAll(@, st.recipes_to_recompute, now)]
      [] k = 6 -> [st EXCEPT !.s = FoldSeq(LAMBDA a, x : MergeTarget(a, x, now), @,
                                           req.targets)]
      [] k = 7 -> [st EXCEPT !.s = FoldSeq(MergeTombstone, @, req.tombstones)]
      [] k = 8 -> [st EXCEPT !.s = FoldSeq(MergeWeight, @, req.weight_entries)]

(***************************************************************************)
(* Validation (core/src/models.rs) on the fields the model carries         *)
(***************************************************************************)
VALID_TOMBSTONE_TABLES == {"foods", "meal_entries", "recipes", "recipe_ingredients"}

validate_food_data(food) == food.calories_per_100g >= 0
\* str::to_lowercase on the meal types
to_lowercase(meal) ==
    CASE meal = "Lunch" -> "lunch"
      [] meal = "SNACK" -> "snack"
      [] OTHER -> meal

MEAL_TYPES == {"breakfast", "lunch", "dinner", "snack"}

\* validate_meal_type: Ok(lower) or Err; ok tells which, lower is the Ok value
validate_meal_type(meal) ==
    [ok |-> to_lowercase(meal) \in MEAL_TYPES, lower |-> to_lowercase(meal)]

\* validate_export_meal_entry: the Ok value of validate_meal_type is dropped
validate_export_meal_entry(entry) ==
    validate_meal_type(entry.meal_type).ok /\ entry.serving_g > 0
validate_export_recipe(recipe) == recipe.portions > 0
validate_export_recipe_ingredient(ingredient) == ingredient.quantity_g > 0
validate_macro_split(protein, carbs, fat) ==
    /\ protein >= 0 /\ carbs >= 0 /\ fat >= 0
    /\ protein <= 100 /\ carbs <= 100 /\ fat <= 100
    /\ protein + carbs + fat = 100

\* the match on (protein_pct, carbs_pct, fat_pct): none, or all three and valid
ValidMacros(t) ==
    LET nones == Cardinality({k \in {"protein_pct", "carbs_pct", "fat_pct"} : t[k] = None})
    IN \/ nones = 3
       \/ nones = 0 /\ validate_macro_split(t.protein_pct[1], t.carbs_pct[1], t.fat_pct[1])

validate_export_target(target) ==
    /\ target.day_of_week \in 0..6
    /\ target.calories > 0
    /\ ValidMacros(target)
validate_export_weight_entry(entry) == entry.weight_kg > 0

\* validate_tombstone, the check: table_name must be one of the four tables
ValidTombstoneTable(tombstone) == tombstone.table_name \in VALID_TOMBSTONE_TABLES

\* a wrong validate_tombstone: a deleted_at in the future is kept
validate_tombstone_unclamped(tombstone, t) == tombstone

\* validate_tombstone, the rewrite: a deleted_at later than now becomes now (UTC)
validate_tombstone(tombstone, t) ==
    IF Instant(tombstone.deleted_at) > t
    THEN [tombstone EXCEPT !.deleted_at = UtcNow(t)]
    ELSE tombstone

\* DateTime::parse_from_rfc3339(ts).is_ok(): the empty string does not parse
parse_from_rfc3339(ts) == ts # NoTs /\ ts # EmptyTs

\* validate_tombstone, both checks: the table name, then the timestamp
TombstoneAccepted(tombstone) ==
    ValidTombstoneTable(tombstone) /\ parse_from_rfc3339(tombstone.deleted_at)

AllOf(seq, Ok(_)) == \A k \in 1..Len(seq) : Ok(seq[k])

\* the validation loops that open push_sync
ValidPush(raw) ==
    /\ AllOf(raw.foods, validate_food_data)
    /\ AllOf(raw.meal_entries, validate_export_meal_entry)
    /\ AllOf(raw.recipes, validate_export_recipe)
    /\ AllOf(raw.recipe_ingredients, validate_export_recipe_ingredient)
    /\ AllOf(raw.targets, validate_export_target)
    /\ AllOf(raw.weight_entries, validate_export_weight_entry)
    /\ AllOf(raw.tombstones, TombstoneAccepted)

(***************************************************************************)
(* The /sync handlers (cli/src/server.rs)                                  *)
(***************************************************************************)
\* get_sync_delta at instant t
get_sync_delta(s, since, t) == changes_since(s, since, UtcNow(t))

\* a wrong push_sync: the delta is read after the merge
push_sync_delta_after_apply(s, raw, t) ==
    LET req == [raw EXCEPT !.tombstones =
                   [k \in 1..Len(raw.tombstones) |-> validate_tombstone(raw.tombstones[k], t)]]
        server_timestamp == UtcNow(t + 1)
        merged == MergeResult(s, req, LocalNow(Server, t + 2))
        delta == changes_since(merged.s, req.since, server_timestamp)
    IN IF ~ValidPush(raw)
       THEN [status |-> 400, req |-> raw, delta |-> <<>>, db |-> s]
       ELSE IF ~merged.ok
       THEN [status |-> 500, req |-> req, delta |-> <<>>, db |-> merged.s]
       ELSE [status |-> 200, req |-> req, delta |-> delta, db |-> merged.s]

\* push_sync on the server store s.  It reads the clock three times: t in
\* validate_tombstone, t + 1 for server_timestamp, t + 2 inside the merge.
\* status 400: a validator refused the body and the store is untouched.
\* status 500: the merge failed and the store keeps what it had written.
push_sync(s, raw, t) ==
    LET req == [raw EXCEPT !.tombstones =
                   [k \in 1..Len(raw.tombstones) |-> validate_tombstone(raw.tombstones[k], t)]]
        server_timestamp == UtcNow(t + 1)
        delta == changes_since(s, req.since, server_timestamp)
        merged == MergeResult(s, req, LocalNow(Server, t + 2))
    IN IF ~ValidPush(raw)
       THEN [status |-> 400, req |-> raw, delta |-> <<>>, db |-> s]
       ELSE IF ~merged.ok
       THEN [status |-> 500, req |-> req, delta |-> <<>>, db |-> merged.s]
       ELSE [status |-> 200, req |-> req, delta |-> delta, db |-> merged.s]

(***************************************************************************)
(* Local operations on meal entries                                        *)
(***************************************************************************)
\* Database::get_meal_entry: meal_entries JOIN foods WHERE me.id = ?
get_meal_entry(s, id) ==
    LET m == ById(s.meals, id)
    IN IF m # NoRow /\ ById(s.foods, m.food_id) # NoRow THEN m ELSE NoRow

\* UpdateMealEntry with no field set; date, display_unit and display_quantity
\* are columns the model leaves out
NoPatch == [serving_g |-> None, meal_type |-> None]

\* Database::update_meal_entry: get_meal_entry(id)?, then one UPDATE for every
\* field of the patch that is Some, each writing the same `now`
update_meal_entry(s, id, update, now) ==
    LET m == get_meal_entry(s, id)
        served == IF update.serving_g # None
                  THEN [m EXCEPT !.serving_g = update.serving_g[1], !.updated_at = now]
                  ELSE m
        typed == IF update.meal_type # None
                 THEN [served EXCEPT !.meal_type = update.meal_type[1], !.updated_at = now]
                 ELSE served
    IN IF m = NoRow THEN s
       ELSE [s EXCEPT !.meals = (@ \ {m}) \cup {typed}]

\* Database::delete_meal_entry
delete_meal_entry(s, id) == [s EXCEPT !.meals = {m \in @ : m.id # id}]

\* GrubService::delete_meal: record a tombstone, then delete
service_delete_meal(s, id, now) ==
    LET m == ById(s.meals, id)
    IN IF m = NoRow THEN s
       ELSE delete_meal_entry(record_tombstone(s, m.uuid, "meal_entries", now), id)

\* DELETE /api/meals/{id} of the server: delete_meal_entry and nothing else
rest_delete_meal(s, id) == delete_meal_entry(s, id)

\* cmd_delete of the command line: delete_meal_entry and nothing else
cli_delete_meal(s, id) == delete_meal_entry(s, id)

(***************************************************************************)
(* Local operations on foods and recipes.  An operation that can fail      *)
(* yields [s, ok]: the store it leaves and whether it returned Ok.         *)
(***************************************************************************)
FreshPool == <<"n1", "n2", "n3", "n4", "n5", "n6", "n7", "n8", "n9", "n10", "n11", "n12">>

\* Uuid::new_v4(): the k-th uuid after those in u that were handed out
NewUuid(u, k) == FreshPool[Cardinality(u \cap SeqToSet(FreshPool)) + k]

\* Database::get_food_by_barcode
get_food_by_barcode(s, barcode) ==
    IF \E f \in s.foods : f.barcode = barcode
    THEN CHOOSE f \in s.foods : f.barcode = barcode ELSE NoRow

\* Database::insert_food: the INSERT fails when the barcode is already stored
insert_food(s, food, uuid, now) ==
    IF BarcodeTaken(s.foods, food.barcode, 0) THEN [s |-> s, ok |-> FALSE, id |-> 0]
    ELSE LET new_id == s.seq.foods + 1
         IN [s |-> [s EXCEPT
                      !.seq.foods = new_id,
                      !.foods = @ \cup
                          {[id |-> new_id, uuid |-> uuid, barcode |-> food.barcode,
                            calories_per_100g |-> food.calories_per_100g,
                            default_serving_g |-> food.default_serving_g,
                            source |-> food.source,
                            created_at |-> now, updated_at |-> now]}],
             ok |-> TRUE, id |-> new_id]

\* Database::upsert_food_by_barcode: the stored food of that barcode, or an insert
upsert_food_by_barcode(s, food, uuid, now) ==
    IF food.barcode # NoBarcode /\ get_food_by_barcode(s, food.barcode) # NoRow
    THEN [s |-> s, ok |-> TRUE, id |-> get_food_by_barcode(s, food.barcode).id]
    ELSE insert_food(s, food, uuid, now)

\* Database::create_recipe: a placeholder virtual food, then the recipe
create_recipe(s, portions, food_uuid, uuid, now) ==
    LET food == insert_food(s, [barcode |-> NoBarcode, calories_per_100g |-> 0,
                                default_serving_g |-> 0, source |-> "recipe"],
                            food_uuid, now)
        new_id == s.seq.recipes + 1
    IN [s |-> [food.s EXCEPT
                 !.seq.recipes = new_id,
                 !.recipes = @ \cup
                     {[id |-> new_id, uuid |-> uuid, food_id |-> food.id,
                       portions |-> portions, created_at |-> now, updated_at |-> now]}],
        id |-> new_id]

\* Database::add_recipe_ingredient: insert the row, then recompute the virtual food
add_recipe_ingredient(s, recipe_id, food_id, quantity_g, uuid, now) ==
    LET new_id == s.seq.ings + 1
        inserted == [s EXCEPT
                       !.seq.ings = new_id,
                       !.ings = @ \cup
                           {[id |-> new_id, uuid |-> uuid, recipe_id |-> recipe_id,
                             food_id |-> food_id, quantity_g |-> quantity_g,
                             updated_at |-> now]}]
    IN recompute_recipe_food(inserted, recipe_id, now)

\* Database::remove_recipe_ingredient, the food being named by its id: delete
\* the rows of that food in the recipe and recompute if any row was deleted
remove_recipe_ingredient(s, recipe_id, food_id, now) ==
    LET rows == {i \in s.ings : i.recipe_id = recipe_id /\ i.food_id = food_id}
    IN IF rows = {} \/ ById(s.foods, food_id) = NoRow THEN s
       ELSE recompute_recipe_food([s EXCEPT !.ings = @ \ rows], recipe_id, now)

\* Database::set_recipe_portions
set_recipe_portions(s, recipe_id, portions, now) ==
    recompute_recipe_food(
        [s EXCEPT !.recipes = {IF r.id = recipe_id
                               THEN [r EXCEPT !.portions = portions, !.updated_at = now]
                               ELSE r : r \in @}],
        recipe_id, now)

\* Database::delete_recipe: the ingredients, the recipe, the virtual food
delete_recipe(s, recipe_id) ==
    LET recipe == ById(s.recipes, recipe_id)
    IN IF recipe = NoRow THEN s
       ELSE [s EXCEPT !.ings = {i \in @ : i.recipe_id # recipe_id},
                      !.recipes = @ \ {recipe},
                      !.foods = {f \in @ : f.id # recipe.food_id}]

RECURSIVE RecordAll(_, _, _, _)
RecordAll(s, uuids, table_name, now) ==
    IF uuids = {} THEN s
    ELSE LET u == CHOOSE x \in uuids : TRUE
         IN RecordAll(record_tombstone(s, u, table_name, now), uuids \ {u}, table_name, now)

\* GrubService::delete_recipe: tombstones for the recipe, its ingredients and
\* its virtual food, then Database::delete_recipe.  A missing virtual food is
\* an Err that leaves the tombstones recorded so far.
service_delete_recipe(s, recipe_id, now) ==
    LET recipe == ById(s.recipes, recipe_id)
        s1 == record_tombstone(s, recipe.uuid, "recipes", now)
        s2 == RecordAll(s1, UuidsIn({i \in s.ings : i.recipe_id = recipe_id}),
                        "recipe_ingredients", now)
        food == ById(s.foods, recipe.food_id)
    IN IF recipe = NoRow THEN s
       ELSE IF food = NoRow THEN s2
       ELSE delete_recipe(record_tombstone(s2, food.uuid, "foods", now), recipe_id)

\* DELETE /api/recipes/{id} of the server: Database::delete_recipe and nothing else
rest_delete_recipe(s, recipe_id) == delete_recipe(s, recipe_id)

\* the loop of create_recipe and update_recipe over the ingredients of the
\* request; acc.status = 0 while no `return Err` was taken, acc.n counts the
\* uuids handed out
AddIngredient(acc, ing, recipe_id, u, now) ==
    IF acc.status # 0 THEN acc
    ELSE IF ing.quantity_g <= 0 \/ ById(acc.s.foods, ing.food_id) = NoRow
    THEN [acc EXCEPT !.status = 400]
    ELSE [acc EXCEPT
            !.s = add_recipe_ingredient(@, recipe_id, ing.food_id, ing.quantity_g,
                                        NewUuid(u, acc.n + 1), now),
            !.n = @ + 1]

\* POST /api/recipes
rest_create_recipe(s, req, u, now) ==
    LET created == create_recipe(s, req.portions, NewUuid(u, 1), NewUuid(u, 2), now)
        done == FoldSeq(LAMBDA a, x : AddIngredient(a, x, created.id, u, now),
                        [s |-> created.s, status |-> 0, n |-> 2], req.ingredients)
    IN IF req.portions <= 0 THEN [s |-> s, status |-> 400, n |-> 0]
       ELSE IF done.status = 0 THEN [done EXCEPT !.status = 201]
       ELSE done

\* PUT /api/recipes/{id}
rest_update_recipe(s, id, req, u, now) ==
    LET s1 == IF req.set_portions THEN set_recipe_portions(s, id, req.portions, now)
              ELSE s
        existing == {i.food_id : i \in {x \in s1.ings : /\ x.recipe_id = id
                                                         /\ ById(s1.foods, x.food_id) # NoRow}}
        RECURSIVE RemoveAll(_, _)
        RemoveAll(x, food_ids) ==
            IF food_ids = {} THEN x
            ELSE LET f == CHOOSE y \in food_ids : TRUE
                 IN RemoveAll(remove_recipe_ingredient(x, id, f, now), food_ids \ {f})
        done == FoldSeq(LAMBDA a, x : AddIngredient(a, x, id, u, now),
                        [s |-> RemoveAll(s1, existing), status |-> 0, n |-> 0],
                        req.ingredients)
    IN IF ById(s.recipes, id) = NoRow THEN [s |-> s, status |-> 404, n |-> 0]
       ELSE IF req.set_portions /\ req.portions <= 0 THEN [s |-> s, status |-> 400, n |-> 0]
       ELSE IF ~req.set_ingredients THEN [s |-> s1, status |-> 200, n |-> 0]
       ELSE IF done.status = 0 THEN [done EXCEPT !.status = 200]
       ELSE done

\* POST /api/foods
rest_create_food(s, req, u, now) ==
    LET out == insert_food(s, req, NewUuid(u, 1), now)
    IN IF req.calories_per_100g < 0 THEN [s |-> s, status |-> 400, n |-> 0]
       ELSE IF ~out.ok THEN [s |-> s, status |-> 500, n |-> 1]
       ELSE [s |-> out.s, status |-> 201, n |-> 1]

(***************************************************************************)
(* Request bodies                                                          *)
(***************************************************************************)
EmptyReq(since) ==
    [since |-> since, foods |-> <<>>, meal_entries |-> <<>>, recipes |-> <<>>,
     recipe_ingredients |-> <<>>, targets |-> <<>>, weight_entries |-> <<>>,
     tombstones |-> <<>>]

FoodIn(u, cal, ts) ==
    [id |-> 1, uuid |-> u, barcode |-> NoBarcode,
     calories_per_100g |-> cal, default_serving_g |-> 100,
     source |-> IF u = "f2" THEN "recipe" ELSE "user",
     created_at |-> ts, updated_at |-> ts]
MealIn(u, fu, g, ts) ==
    [id |-> 1, uuid |-> u, food_id |-> 1, food_uuid |-> fu, meal_type |-> "lunch",
     serving_g |-> g,
     created_at |-> ts, updated_at |-> ts]
RecipeIn(u, fu, n, ts) ==
    [id |-> 1, uuid |-> u, food_id |-> 1, food_uuid |-> fu, portions |-> n,
     created_at |-> ts, updated_at |-> ts]
IngIn(u, ru, fu, q) ==
    [id |-> 1, uuid |-> u, recipe_id |-> 1, food_id |-> 1, recipe_uuid |-> ru,
     food_uuid |-> fu, quantity_g |-> q]
TargetIn(d, kcal, ts) ==
    [day_of_week |-> d, calories |-> kcal, protein_pct |-> None, carbs_pct |-> None,
     fat_pct |-> None, updated_at |-> ts]
WeightIn(u, d, kg, ts) ==
    [uuid |-> u, date |-> d, weight_kg |-> kg, created_at |-> ts, updated_at |-> ts]
TombIn(u, tbl, ts) == [uuid |-> u, table_name |-> tbl, deleted_at |-> ts]

\* the body that seeds the server store: one row of every table
SeedReq ==
    [EmptyReq(NoTs) EXCEPT
        !.foods = <<FoodIn("f1", 120, UtcNow(3)), FoodIn("f2", 0, UtcNow(3))>>,
        !.meal_entries = <<MealIn("m1", "f1", 100, UtcNow(3))>>,
        !.recipes = <<RecipeIn("r1", "f2", 1, UtcNow(3))>>,
        !.recipe_ingredients = <<IngIn("i1", "r1", "f1", 100)>>,
        !.targets = <<TargetIn(0, 2000, UtcNow(3))>>,
        !.weight_entries = <<WeightIn("w1", 1, 70, UtcNow(3))>>]

UuidsOfTable(tbl) ==
    CASE tbl = "foods" -> FoodUuids
      [] tbl = "meal_entries" -> MealUuids
      [] tbl = "recipes" -> RecipeUuids
      [] tbl = "recipe_ingredients" -> IngUuids
      [] OTHER -> {}

\* uuids of a food and of a recipe that no store and no request body holds
UnknownFood == "fx"
UnknownRecipe == "rx"

\* batches in which one row refers to an unknown food or recipe
OrphanBodies(since) ==
    LET e == EmptyReq(since)
        ts == UtcNow(4)
    IN {[e EXCEPT !.meal_entries = <<MealIn("m2", UnknownFood, 200, ts),
                                     MealIn("m1", "f1", 200, ts)>>],
        [e EXCEPT !.recipes = <<RecipeIn("r1", UnknownFood, 2, ts)>>,
                  !.foods = <<FoodIn("f1", 240, ts)>>],
        [e EXCEPT !.recipe_ingredients = <<IngIn("i1", UnknownRecipe, "f1", 200)>>,
                  !.targets = <<TargetIn(0, 1800, ts)>>],
        [e EXCEPT !.recipe_ingredients = <<IngIn("i1", "r1", UnknownFood, 200)>>,
                  !.weight_entries = <<WeightIn("w2", 1, 71, ts)>>]}

\* the request bodies a POST /sync is tried with at instant t: one row or one
\* tombstone each, with a past timestamp (a tombstone may also lie in the future)
PastTimes(t) == {UtcNow(x) : x \in {y \in PushTimes : y < t}}

PushBodies(t, since) ==
    LET e == EmptyReq(since)
    IN {[e EXCEPT !.foods = <<FoodIn(u, 240, ts)>>]
            : u \in FoodUuids, ts \in PastTimes(t)}
       \cup {[e EXCEPT !.meal_entries = <<MealIn(u, "f1", 200, ts)>>]
            : u \in MealUuids, ts \in PastTimes(t)}
       \cup {[e EXCEPT !.recipes = <<RecipeIn(u, "f2", 2, ts)>>]
            : u \in RecipeUuids, ts \in PastTimes(t)}
       \cup {[e EXCEPT !.recipe_ingredients = <<IngIn(u, "r1", "f1", 200)>>]
            : u \in IngUuids}
       \cup {[e EXCEPT !.targets = <<TargetIn(d, 1800, ts)>>]
            : d \in Days, ts \in PastTimes(t) \cup {NoTs}}
       \cup {[e EXCEPT !.weight_entries = <<WeightIn(u, d, 71, ts)>>]
            : u \in WeightUuids, d \in Dates, ts \in PastTimes(t)}
       \cup UNION {{[e EXCEPT !.tombstones = <<TombIn(u, tbl, ts)>>]
                      : u \in UuidsOfTable(tbl),
                        ts \in PastTimes(t) \cup {UtcNow(FarFuture)}}
                   : tbl \in VALID_TOMBSTONE_TABLES}
       \cup {[e EXCEPT !.tombstones = <<TombIn("w1", "weight_entries", UtcNow(3))>>]}
       \cup OrphanBodies(since)


(***************************************************************************)
(* The migrator (Database::migrate, core/src/db.rs)                        *)
(*                                                                         *)
(* A database file is its user_version, its tables (name -> columns), its  *)
(* indexes, and the rows of foods and of the targets tables.  Every        *)
(* statement of an execute_batch commits on its own: the batches open no   *)
(* transaction.                                                            *)
(***************************************************************************)
MaxRuns == 3           \* times the database is opened in a run of SpecMigrate
MaxInterrupts == 1     \* times the process is killed in the middle of migrate
LatestVersion == 6

EmptyDatabase ==
    [user_version |-> 0, tables |-> [t \in {} |-> {}], indexes |-> {},
     foods |-> {}, targets |-> {}, targets_new |-> {}]

TargetColumns ==
    {"day_of_week", "calories", "protein_pct", "carbs_pct", "fat_pct", "updated_at"}

\* the single-row targets table of the releases before migration 4
OldTargetColumns ==
    {"id", "calories", "protein_pct", "carbs_pct", "fat_pct", "updated_at"}

\* statements, as records
CreateTableIfNotExists(table, columns) ==
    [op |-> "create_table_if_not_exists", table |-> table, columns |-> columns]
CreateTable(table, columns) ==
    [op |-> "create_table", table |-> table, columns |-> columns]
CreateIndexIfNotExists(index) == [op |-> "create_index_if_not_exists", index |-> index]
CreateIndex(index) == [op |-> "create_index", index |-> index]
AddColumn(table, column) == [op |-> "add_column", table |-> table, column |-> column]
Backfill(table) == [op |-> "backfill", table |-> table]
CopyTarget == [op |-> "copy_target"]
DropTable(table) == [op |-> "drop_table", table |-> table]
RenameTable(table, to) == [op |-> "rename_table", table |-> table, to |-> to]
PragmaUserVersion(n) == [op |-> "user_version", version |-> n]

\* `SELECT id FROM targets LIMIT 0` can be prepared
has_old_schema(d) == "targets" \in DOMAIN d.tables /\ "id" \in d.tables["targets"]

\* the statements migration k runs on the database d, in order
Statements(k, d) ==
    CASE k = 1 ->
            <<CreateTableIfNotExists("foods", {"id", "barcode", "calories_per_100g",
                                               "default_serving_g", "source", "created_at"}),
              CreateTableIfNotExists("meal_entries", {"id", "meal_type", "food_id",
                                                      "serving_g", "created_at"}),
              CreateTableIfNotExists("recipes", {"id", "food_id", "portions", "created_at"}),
              CreateTableIfNotExists("recipe_ingredients", {"id", "recipe_id", "food_id",
                                                            "quantity_g"}),
              CreateIndexIfNotExists("idx_meal_entries_date"),
              CreateIndexIfNotExists("idx_foods_barcode"),
              CreateIndexIfNotExists("idx_foods_name"),
              CreateIndexIfNotExists("idx_recipe_ingredients_recipe"),
              CreateTableIfNotExists("targets", TargetColumns),
              PragmaUserVersion(1)>>
      [] k = 2 ->
            <<AddColumn("foods", "uuid"), AddColumn("foods", "updated_at"),
              AddColumn("meal_entries", "uuid"), AddColumn("meal_entries", "updated_at"),
              AddColumn("recipes", "uuid"), AddColumn("recipes", "updated_at"),
              AddColumn("recipe_ingredients", "uuid"),
              AddColumn("recipe_ingredients", "updated_at"),
              Backfill("foods"), Backfill("meal_entries"), Backfill("recipes"),
              Backfill("recipe_ingredients"),
              CreateIndex("idx_foods_uuid"), CreateIndex("idx_meal_entries_uuid"),
              CreateIndex("idx_recipes_uuid"), CreateIndex("idx_recipe_ingredients_uuid"),
              CreateTable("sync_tombstones", {"uuid", "table_name", "deleted_at"}),
              CreateIndex("idx_tombstones_uuid"),
              CreateTable("config", {"key", "value"}),
              PragmaUserVersion(2)>>
      [] k = 3 ->
            <<AddColumn("meal_entries", "display_unit"),
              AddColumn("meal_entries", "display_quantity"),
              PragmaUserVersion(3)>>
      [] k = 4 ->
            (IF has_old_schema(d)
             THEN <<CreateTable("targets_new", TargetColumns), CopyTarget,
                    DropTable("targets"), RenameTable("targets_new", "targets")>>
             ELSE <<>>) \o <<PragmaUserVersion(4)>>
      [] k = 5 ->
            <<CreateTableIfNotExists("weight_entries",
                                     {"id", "uuid", "date", "weight_kg", "created_at",
                                      "updated_at"}),
              PragmaUserVersion(5)>>
      [] k = 6 ->
            <<CreateTableIfNotExists("user_settings", {"key", "value", "updated_at"}),
              PragmaUserVersion(6)>>

\* a table gains or is given its columns
WithTable(d, table, columns) ==
    [d EXCEPT !.tables = (table :> columns) @@ @]

WithoutTable(d, table) ==
    [d EXCEPT !.tables = [t \in DOMAIN @ \ {table} |-> @[t]]]

\* one statement on the database d; uuids are the values Uuid::new_v4() hands
\* to the rows of the backfill loop, by row id.  ok = FALSE: SQLite refused
\* the statement and the database is as it was
Execute(d, stmt, uuids) ==
    LET fail == [d |-> d, ok |-> FALSE]
        fine(x) == [d |-> x, ok |-> TRUE]
        exists == stmt.table \in DOMAIN d.tables
    IN CASE stmt.op = "create_table_if_not_exists" ->
               IF exists THEN fine(d) ELSE fine(WithTable(d, stmt.table, stmt.columns))
         [] stmt.op = "create_table" ->
               IF exists THEN fail ELSE fine(WithTable(d, stmt.table, stmt.columns))
         [] stmt.op = "create_index_if_not_exists" ->
               fine([d EXCEPT !.indexes = @ \cup {stmt.index}])
         [] stmt.op = "create_index" ->
               IF stmt.index \in d.indexes THEN fail
               ELSE fine([d EXCEPT !.indexes = @ \cup {stmt.index}])
         [] stmt.op = "add_column" ->
               IF ~exists \/ stmt.column \in d.tables[stmt.table] THEN fail
               ELSE fine(WithTable(d, stmt.table, d.tables[stmt.table] \cup {stmt.column}))
         [] stmt.op = "backfill" ->
               IF ~exists \/ "uuid" \notin d.tables[stmt.table] THEN fail
               ELSE IF stmt.table # "foods" THEN fine(d)
               ELSE fine([d EXCEPT !.foods =
                            {[f EXCEPT !.uuid = uuids[f.id],
                                       !.updated_at = f.created_at] : f \in @}])
         [] stmt.op = "copy_target" ->
               fine([d EXCEPT !.targets_new =
                        @ \cup {[day_of_week |-> day, calories |-> t.calories,
                                 updated_at |-> t.updated_at]
                                  : day \in 0..6, t \in {x \in d.targets : x.id = 1}}])
         [] stmt.op = "drop_table" ->
               IF ~exists THEN fail
               ELSE fine([WithoutTable(d, stmt.table) EXCEPT !.targets = {}])
         [] stmt.op = "rename_table" ->
               IF ~exists \/ stmt.to \in DOMAIN d.tables THEN fail
               ELSE fine([WithTable(WithoutTable(d, stmt.table), stmt.to,
                                    d.tables[stmt.table])
                             EXCEPT !.targets = d.targets_new, !.targets_new = {}])
         [] stmt.op = "user_version" ->
               fine([d EXCEPT !.user_version = stmt.version])

\* a whole list of statements, stopping at the first that is refused
RECURSIVE ExecuteAll(_, _, _)
ExecuteAll(d, stmts, uuids) ==
    IF stmts = <<>> THEN [d |-> d, ok |-> TRUE]
    ELSE LET out == Execute(d, Head(stmts), uuids)
         IN IF out.ok THEN ExecuteAll(out.d, Tail(stmts), uuids) ELSE out

\* a wrong test: the migration of the version the database is at runs again
DueAgain(version, k) == version <= k

\* the test that guards migration k: `if version < k`
Due(version, k) == version < k

\* migrations from + 1 .. to applied in order, each as a whole
RECURSIVE MigrateTo(_, _, _, _)
MigrateTo(d, from, to, uuids) ==
    IF from >= to THEN d
    ELSE MigrateTo(ExecuteAll(d, Statements(from + 1, d), uuids).d, from + 1, to, uuids)

\* migrate has not been called on this database file
NoRun == [pc |-> "closed", version |-> 0, k |-> 0, todo |-> <<>>, applied |-> <<>>]

\* d: the database file; run: the locals of migrate (version, the migration k
\* its `if` chain has reached, the statements of k still to run) and the
\* migrations it has begun; start, before: the file as it was when this run
\* and when migration k began
Migrator(d) ==
    [d |-> d, start |-> d, before |-> d, run |-> NoRun, runs |-> 0, interrupts |-> 0]

\* the uuids the rows of a database file of a later version were given
SeedUuids == [id \in {1} |-> "f1"]

\* the current schema with no rows: what Database::open makes of a new file
CurrentSchema == MigrateTo(EmptyDatabase, 0, LatestVersion, SeedUuids)

\* rows written while the file was at version 1: a food, and the target of
\* the single-row targets table
OldFood == [id |-> 1, uuid |-> EmptyUuid, created_at |-> UtcNow(3), updated_at |-> EmptyTs]
OldTarget == [id |-> 1, calories |-> 2000, updated_at |-> UtcNow(3)]

\* the database files at version 1: with the targets table of migration 1 or
\* the single-row table of the earlier releases, with and without rows
DatabasesAtOne ==
    LET new == MigrateTo(EmptyDatabase, 0, 1, SeedUuids)
        old == MigrateTo(WithTable(EmptyDatabase, "targets", OldTargetColumns), 0, 1,
                         SeedUuids)
    IN {[d EXCEPT !.foods = foods] : d \in {new, old}, foods \in {{}, {OldFood}}}
       \cup {[old EXCEPT !.foods = foods, !.targets = {OldTarget}]
                : foods \in {{}, {OldFood}}}

\* the database files at version v
DatabasesAt(v) ==
    IF v = 0 THEN {EmptyDatabase}
    ELSE {MigrateTo(d, 1, v, SeedUuids) : d \in DatabasesAtOne}

(***************************************************************************)
(* Bookkeeping read by the properties                                      *)
(***************************************************************************)
NoReq == [status |-> 0]
NoPull == [at |-> 0]

\* the state.db mutex with no holder
Free == "free"

\* the concurrent requests of SpecConc: two POST /sync, and one each of
\* GET /api/summary/{date}, GET /sync and GET /api/export
Pushers == {"push1", "push2"}
Readers == {"summary", "pull", "export"}
Requests == Pushers \cup Readers

\* no request has arrived
NoTasks == [r \in Requests |-> [pc |-> "new"]]

HistInit ==
    [nPush |-> 0, nPull |-> 0, nLocal |-> 0, nSync |-> 0,
     merged |-> {},      \* <<uuid, table_name>> of every tombstone a merge received
     retry |-> FALSE,    \* the last POST /sync repeated the body of the one before
     pull |-> NoPull,    \* the last GET /sync on the server: since, response, instant
     ops |-> {},         \* the local operations so far: [p, op, at]
     pushed |-> [c \in Clients |-> 0],   \* instant of c's last push (0: none)
     pulled |-> [c \in Clients |-> 0],   \* instant of c's last pull (0: none)
     seen |-> [c \in Clients |-> {}],    \* versions c sent or received in a sync
     fresh |-> [c \in Clients |-> FALSE]]  \* no server write since c's last sync

(***************************************************************************)
(* SpecMerge: the server alone, its /sync endpoints driven by any client   *)
(***************************************************************************)
InitMerge ==
    /\ tz = [p \in Participants |-> 0]
    /\ db = [p \in Participants |->
                IF p = Server
                THEN apply_remote_changes(EmptyStore, SeedReq, Rfc3339(4, 0))
                ELSE EmptyStore]
    /\ clock = 5
    /\ wm = [c \in Clients |-> NoTs]
    /\ used = FoodUuids \cup {"m1", "r1", "i1", "w1"}
    /\ lastReq = NoReq
    /\ lastResp = NoReq
    /\ preDb = EmptyStore
    /\ hist = HistInit
    /\ mutex = Free
    /\ task = NoTasks
    /\ mig = Migrator(CurrentSchema)
    /\ api_key = None

\* POST /sync with the body raw
PushSync(raw) ==
    LET out == push_sync(db[Server], raw, clock)
    IN /\ hist.nPush < MaxPush
       /\ db' = [db EXCEPT ![Server] = out.db]
       /\ clock' = clock + 3
       /\ lastReq' = [status |-> out.status, raw |-> raw, req |-> out.req, at |-> clock]
       /\ lastResp' = out.delta
       /\ preDb' = db[Server]
       /\ hist' = [hist EXCEPT
                     !.nPush = @ + 1,
                     !.merged = IF out.status = 200
                                THEN @ \cup {<<x.uuid, x.table_name>>
                                                : x \in SeqToSet(out.req.tombstones)}
                                ELSE @,
                     !.retry = lastReq.status = 200 /\ lastReq.raw = raw,
                     !.pull = NoPull]
       /\ UNCHANGED <<tz, api_key, mutex, task, mig, wm, used>>

\* GET /sync?since=...
GetSyncDelta(since) ==
    /\ hist.nPull < MaxPull
    /\ clock' = clock + 1
    /\ hist' = [hist EXCEPT
                  !.nPull = @ + 1,
                  !.pull = [at |-> clock, since |-> since,
                            resp |-> get_sync_delta(db[Server], since, clock)]]
    /\ UNCHANGED <<db, tz, api_key, mutex, task, mig, wm, used, lastReq, lastResp, preDb>>

\* the watermarks a client may hold: none, an old one, or the last response's
Watermarks ==
    {NoTs} \cup (IF lastReq.status = 200 THEN {lastResp.server_timestamp}
                                          ELSE {UtcNow(3)})

NextMerge ==
    \/ \E since \in Watermarks : \E raw \in PushBodies(clock, since) : PushSync(raw)
    \/ \E since \in Watermarks \cup {UtcNow(3), UtcNow(4)} : GetSyncDelta(since)

SpecMerge == InitMerge /\ [][NextMerge]_vars

(***************************************************************************)
(* Properties of the merge and of the /sync endpoints (SpecMerge)          *)
(***************************************************************************)
PushOk == lastReq.status = 200

RowsOf(s, table_name) ==
    CASE table_name = "foods" -> s.foods
      [] table_name = "meal_entries" -> s.meals
      [] table_name = "recipes" -> s.recipes
      [] table_name = "recipe_ingredients" -> s.ings
      [] OTHER -> {}

\* the last request was an accepted push of exactly one tombstone
TombstonePush == PushOk /\ Len(lastReq.req.tombstones) = 1

\* the rows the tombstone of the last push named, as they were before it
TombstoneTargets ==
    {r \in RowsOf(preDb, lastReq.req.tombstones[1].table_name)
        : r.uuid = lastReq.req.tombstones[1].uuid}

\* C6: merging a tombstone deletes the row with its uuid if and only if the
\* row's updated_at is strictly earlier than the tombstone's deleted_at; a row
\* with an equal or later updated_at stays in the table exactly as it was.
C6_TombstoneDeletesIffOlder ==
    TombstonePush =>
        LET tombstone == lastReq.req.tombstones[1]
            after == RowsOf(db[Server], tombstone.table_name)
        IN \A r \in TombstoneTargets :
              IF Instant(r.updated_at) < Instant(tombstone.deleted_at)
              THEN \A x \in after : x.uuid # r.uuid
              ELSE r \in after

\* a tombstone met a row of exactly its own timestamp, and the row is still there
C6_Witness ==
    /\ TombstonePush
    /\ \E r \in TombstoneTargets :
          /\ r.updated_at = lastReq.req.tombstones[1].deleted_at
          /\ r \in RowsOf(db[Server], lastReq.req.tombstones[1].table_name)

StoredFor(s, uuid, table_name) ==
    {x \in SeqToSet(s.tombs) : x.uuid = uuid /\ x.table_name = table_name}

\* the watermark `since` precedes the instant ts (no watermark precedes everything)
Precedes(since, ts) == since = NoTs \/ Instant(since) < Instant(ts)

\* C7: once a merge has received a tombstone, a tombstone for that uuid and
\* table is stored, whether or not a row was deleted, and every later delta
\* extraction (GET /sync, or the delta of a later push) whose watermark precedes
\* the stored tombstone's deleted_at returns it.
C7_TombstoneStoredAndReturned ==
    /\ \A k \in hist.merged : StoredFor(db[Server], k[1], k[2]) # {}
    /\ hist.pull # NoPull =>
          \A k \in hist.merged : \A x \in StoredFor(db[Server], k[1], k[2]) :
              Precedes(hist.pull.since, x.deleted_at)
                  => x \in SeqToSet(hist.pull.resp.tombstones)
    /\ PushOk =>
          \A x \in SeqToSet(preDb.tombs) :
              Precedes(lastReq.req.since, x.deleted_at)
                  => x \in SeqToSet(lastResp.tombstones)

\* a tombstone that deleted nothing (its row is still there) came back from a
\* later GET /sync that carried a watermark
C7_Witness ==
    /\ hist.pull # NoPull
    /\ hist.pull.since # NoTs
    /\ \E x \in SeqToSet(hist.pull.resp.tombstones) :
          /\ <<x.uuid, x.table_name>> \in hist.merged
          /\ \E r \in RowsOf(db[Server], x.table_name) : r.uuid = x.uuid

\* every row and tombstone of the delta d is held, exactly so, by the store s
DeltaWithin(d, s) ==
    /\ SeqToSet(d.foods) \subseteq s.foods
    /\ SeqToSet(d.meal_entries) \subseteq ExportMeals(s)
    /\ SeqToSet(d.recipes) \subseteq ExportRecipes(s)
    /\ SeqToSet(d.recipe_ingredients) \subseteq {StripIng(i) : i \in ExportIngs(s)}
    /\ SeqToSet(d.targets) \subseteq s.targets
    /\ SeqToSet(d.weight_entries) \subseteq s.weights
    /\ SeqToSet(d.tombstones) \subseteq SeqToSet(s.tombs)

\* C8: the delta a push returns is read from the server store as it was before
\* the push was applied: every row and tombstone in the response was held by
\* the server before the push, so nothing the push wrote is in it.
C8_PushDeltaFromPreState ==
    PushOk =>
        /\ DeltaWithin(lastResp, preDb)
        /\ lastResp = changes_since(preDb, lastReq.req.since, lastResp.server_timestamp)

\* a push overwrote a food and its response carries the food as it was before
C8_Witness ==
    /\ PushOk
    /\ Len(lastReq.req.foods) = 1
    /\ \E f \in SeqToSet(lastResp.foods) :
          /\ f.uuid = lastReq.req.foods[1].uuid
          /\ f \notin db[Server].foods

\* C9: the GET /sync that follows a push, with the push's server_timestamp as
\* its watermark, returns nothing the push wrote: every row and tombstone in
\* it was already held by the server before the push.
C9_NextPullOmitsPush ==
    (PushOk /\ hist.pull # NoPull /\ hist.pull.since = lastResp.server_timestamp)
        => DeltaWithin(hist.pull.resp, preDb)

\* C10: a push that repeats the body of the push before it leaves the server
\* store exactly as the first application left it.
C10_RetryLeavesStore ==
    (PushOk /\ hist.retry) => db[Server] = preDb

\* the number of rows and tombstones a request body carries
BodySize(req) ==
    Len(req.foods) + Len(req.meal_entries) + Len(req.recipes)
        + Len(req.recipe_ingredients) + Len(req.targets)
        + Len(req.weight_entries) + Len(req.tombstones)

\* the last request was an accepted push of one row of `field` and nothing else
OnlyRow(field) ==
    PushOk /\ BodySize(lastReq.req) = 1 /\ Len(lastReq.req[field]) = 1

\* the local id of the food with uuid u in store s (0: there is none)
FoodIdOf(s, u) == LET f == get_food_by_uuid(s, u) IN IF f = NoRow THEN 0 ELSE f.id

\* C11: merging an incoming food, meal entry or recipe whose uuid is already
\* stored (and, for a meal entry or recipe, whose food is known) overwrites
\* the mutable columns and updated_at when the incoming updated_at is strictly
\* later than the stored one, and leaves the stored row exactly as it was
\* otherwise, also when the two timestamps are equal.
C11_LastWriteWins ==
    /\ OnlyRow("foods") =>
          LET in == lastReq.req.foods[1]
              old == get_food_by_uuid(preDb, in.uuid)
          IN old # NoRow =>
                get_food_by_uuid(db[Server], in.uuid) =
                    IF Instant(in.updated_at) > Instant(old.updated_at)
                    THEN [old EXCEPT !.barcode = in.barcode,
                                     !.calories_per_100g = in.calories_per_100g,
                                     !.default_serving_g = in.default_serving_g,
                                     !.source = in.source,
                                     !.updated_at = in.updated_at]
                    ELSE old
    /\ OnlyRow("meal_entries") =>
          LET in == lastReq.req.meal_entries[1]
              old == get_meal_entry_by_uuid(preDb, in.uuid)
              food_id == FoodIdOf(preDb, in.food_uuid)
          IN (old # NoRow /\ food_id # 0) =>
                get_meal_entry_by_uuid(db[Server], in.uuid) =
                    IF Instant(in.updated_at) > Instant(old.updated_at)
                    THEN [old EXCEPT !.food_id = food_id,
                                     !.meal_type = in.meal_type,
                                     !.serving_g = in.serving_g,
                                     !.updated_at = in.updated_at]
                    ELSE old
    /\ OnlyRow("recipes") =>
          LET in == lastReq.req.recipes[1]
              old == get_recipe_by_uuid(preDb, in.uuid)
              food_id == FoodIdOf(preDb, in.food_uuid)
          IN (old # NoRow /\ food_id # 0) =>
                get_recipe_by_uuid(db[Server], in.uuid) =
                    IF Instant(in.updated_at) > Instant(old.updated_at)
                    THEN [old EXCEPT !.food_id = food_id,
                                     !.portions = in.portions,
                                     !.updated_at = in.updated_at]
                    ELSE old

\* a pushed recipe carried exactly the timestamp of the stored one, with other
\* portions, and the stored recipe is as it was
C11_Witness ==
    /\ OnlyRow("recipes")
    /\ LET in == lastReq.req.recipes[1]
           old == get_recipe_by_uuid(preDb, in.uuid)
       IN /\ old # NoRow
          /\ in.updated_at = old.updated_at
          /\ in.portions # old.portions
          /\ get_recipe_by_uuid(db[Server], in.uuid) = old

\* the timestamp ts is later than the watermark w (an absent watermark: always)
After(ts, w) == w = NoTs \/ Instant(ts) > Instant(w)

\* C12: changes_since(w) returns exactly the rows of foods, meal entries,
\* recipes, recipe ingredients, targets and weight entries whose updated_at is
\* later than w and exactly the tombstones whose deleted_at is later than w;
\* with no watermark it returns every row of these tables and every tombstone.
C12_DeltaExact ==
    hist.pull # NoPull =>
        LET s == db[Server]
            w == hist.pull.since
            d == hist.pull.resp
        IN /\ SeqToSet(d.foods) = {f \in s.foods : After(f.updated_at, w)}
           /\ SeqToSet(d.meal_entries) \subseteq ExportMeals(s)
           /\ UuidsIn(SeqToSet(d.meal_entries))
                 = UuidsIn({m \in s.meals : After(m.updated_at, w)})
           /\ SeqToSet(d.recipes) \subseteq ExportRecipes(s)
           /\ UuidsIn(SeqToSet(d.recipes))
                 = UuidsIn({r \in s.recipes : After(r.updated_at, w)})
           /\ UuidsIn(SeqToSet(d.recipe_ingredients))
                 = UuidsIn({i \in s.ings : After(i.updated_at, w)})
           /\ SeqToSet(d.targets) = {x \in s.targets : After(x.updated_at, w)}
           /\ SeqToSet(d.weight_entries) = {x \in s.weights : After(x.updated_at, w)}
           /\ SeqToSet(d.tombstones)
                 = {x \in SeqToSet(s.tombs) : After(x.deleted_at, w)}

\* the food uuid u is neither in the request body nor in the store s
OrphanFood(req, s, u) ==
    u \notin UuidsIn(SeqToSet(req.foods)) /\ get_food_by_uuid(s, u) = NoRow

\* the recipe uuid u is neither in the request body nor in the store s
OrphanRecipe(req, s, u) ==
    u \notin UuidsIn(SeqToSet(req.recipes)) /\ get_recipe_by_uuid(s, u) = NoRow

\* the request body without its rows that refer to an unknown food or recipe
WithoutOrphans(req, s) ==
    [req EXCEPT
        !.meal_entries = SelectSeq(@, LAMBDA x : ~OrphanFood(req, s, x.food_uuid)),
        !.recipes = SelectSeq(@, LAMBDA x : ~OrphanFood(req, s, x.food_uuid)),
        !.recipe_ingredients =
            SelectSeq(@, LAMBDA x : /\ ~OrphanFood(req, s, x.food_uuid)
                                    /\ ~OrphanRecipe(req, s, x.recipe_uuid))]

\* the last push was accepted and carried a row that refers to an unknown
\* food or recipe
OrphanPush == PushOk /\ WithoutOrphans(lastReq.req, preDb) # lastReq.req

\* C13: a merge whose batch holds a meal entry, recipe or recipe ingredient
\* that refers to a food or recipe found neither in the batch nor in the store
\* succeeds, leaves the row of that uuid as it was (absent or unchanged), and
\* merges every other row of the batch as if the skipped row were not there.
C13_UnknownReferenceSkipped ==
    OrphanPush =>
        LET req == lastReq.req
            rest == WithoutOrphans(req, preDb)
        IN /\ lastReq.status = 200
           /\ db[Server] = apply_remote_changes(preDb, rest,
                                                 LocalNow(Server, lastReq.at + 2))
           /\ \A k \in 1..Len(req.meal_entries) :
                 OrphanFood(req, preDb, req.meal_entries[k].food_uuid) =>
                     get_meal_entry_by_uuid(db[Server], req.meal_entries[k].uuid)
                         = get_meal_entry_by_uuid(preDb, req.meal_entries[k].uuid)
           /\ \A k \in 1..Len(req.recipes) :
                 OrphanFood(req, preDb, req.recipes[k].food_uuid) =>
                     get_recipe_by_uuid(db[Server], req.recipes[k].uuid)
                         = get_recipe_by_uuid(preDb, req.recipes[k].uuid)
           /\ \A k \in 1..Len(req.recipe_ingredients) :
                 (\/ OrphanFood(req, preDb, req.recipe_ingredients[k].food_uuid)
                  \/ OrphanRecipe(req, preDb, req.recipe_ingredients[k].recipe_uuid)) =>
                     get_recipe_ingredient_by_uuid(db[Server], req.recipe_ingredients[k].uuid)
                         = get_recipe_ingredient_by_uuid(preDb, req.recipe_ingredients[k].uuid)

\* a batch held a meal entry of an unknown food next to a newer version of a
\* stored entry: the first is not in the store, the second was merged
C13_Witness ==
    /\ OrphanPush
    /\ Len(lastReq.req.meal_entries) = 2
    /\ get_meal_entry_by_uuid(db[Server], lastReq.req.meal_entries[1].uuid) = NoRow
    /\ get_meal_entry_by_uuid(preDb, lastReq.req.meal_entries[2].uuid) # NoRow
    /\ get_meal_entry_by_uuid(db[Server], lastReq.req.meal_entries[2].uuid).updated_at
          = lastReq.req.meal_entries[2].updated_at
    /\ get_meal_entry_by_uuid(db[Server], lastReq.req.meal_entries[2].uuid).serving_g
          = lastReq.req.meal_entries[2].serving_g

\* the ingredient rows of recipe r in store s, each with the calories it
\* contributes (its food's calories per 100 g times its quantity over 100)
IngredientsOf(s, r) ==
    {[id |-> i.id, quantity_g |-> i.quantity_g,
      calories |-> IF ById(s.foods, i.food_id) = NoRow THEN 0
                   ELSE (ById(s.foods, i.food_id).calories_per_100g * i.quantity_g) \div 100]
        : i \in {x \in s.ings : x.recipe_id = r.id}}

\* the virtual food of recipe r in store s carries the totals of r's ingredients
VirtualFoodMatches(s, r) ==
    LET f == ById(s.foods, r.food_id)
        weight == SumOver(IngredientsOf(s, r), "quantity_g")
        cal == SumOver(IngredientsOf(s, r), "calories")
    IN f # NoRow =>
          IF weight > 0
          THEN /\ f.calories_per_100g = (cal * 100) \div weight
               /\ f.default_serving_g = weight \div r.portions
          ELSE /\ f.calories_per_100g = 0
               /\ f.default_serving_g = 0

\* C14: for every recipe of the store, the calories per 100 g of its virtual
\* food equal the quantity-weighted total of its current ingredients divided
\* by their total weight times 100, and its default_serving_g equals the total
\* weight divided by the portions (both zero when it has no ingredients).
C14_VirtualFoodMatchesIngredients ==
    \A r \in db[Server].recipes : VirtualFoodMatches(db[Server], r)

\* the rows of `after` that are rows of `before`: same primary key (key)
SameRows(before, after, key) ==
    {<<r, x>> \in before \X after : r[key] = x[key]}

\* C21: a POST /sync leaves the uuid of every row it does not delete as it
\* was: the rows of foods, meal entries, recipes and recipe ingredients (by
\* id) and of weight entries (by date, their unique key).
C21_UuidNeverChanges ==
    LET s == db[Server]
    IN hist.nPush > 0 =>
          /\ \A t \in {"foods", "meals", "recipes", "ings"} :
                \A pair \in SameRows(preDb[t], s[t], "id") : pair[1].uuid = pair[2].uuid
          /\ \A pair \in SameRows(preDb.weights, s.weights, "date") :
                pair[1].uuid = pair[2].uuid

\* C24: a POST /sync that changes the stored content of a row of foods, meal
\* entries, recipes, recipe ingredients or weight entries also changes the
\* row's updated_at.
C24_ContentChangeBumpsUpdatedAt ==
    LET s == db[Server]
    IN hist.nPush > 0 =>
          /\ \A t \in {"foods", "meals", "recipes", "ings"} :
                \A pair \in SameRows(preDb[t], s[t], "id") :
                    pair[1].updated_at = pair[2].updated_at => pair[1] = pair[2]
          /\ \A pair \in SameRows(preDb.weights, s.weights, "date") :
                pair[1].updated_at = pair[2].updated_at => pair[1] = pair[2]

(***************************************************************************)
(* SpecSync: the server and two clients that hold the same food f1 and     *)
(* meal entry m1.  A client keeps its data in a GrubService: it sends      *)
(* changes_since(its watermark), merges every response with                *)
(* apply_remote_changes and keeps the response's server_timestamp as its   *)
(* next watermark.                                                         *)
(***************************************************************************)
TheMeal == "m1"

SyncSeed ==
    apply_remote_changes(
        EmptyStore,
        [EmptyReq(NoTs) EXCEPT !.foods = <<FoodIn("f1", 120, UtcNow(1))>>,
                               !.meal_entries = <<MealIn(TheMeal, "f1", 100, UtcNow(1))>>],
        UtcNow(1))

\* the versions (table, uuid, timestamp) a store or a delta holds
VersionsOf(foods, meals, tombstones) ==
    {<<"foods", r.uuid, r.updated_at>> : r \in foods}
        \cup {<<"meal_entries", r.uuid, r.updated_at>> : r \in meals}
        \cup {<<"tombstone", x.uuid, x.deleted_at>> : x \in tombstones}
VersionsOfStore(s) == VersionsOf(s.foods, s.meals, SeqToSet(s.tombs))
VersionsOfDelta(d) ==
    VersionsOf(SeqToSet(d.foods), SeqToSet(d.meal_entries), SeqToSet(d.tombstones))

InitSync ==
    /\ tz = [p \in Participants |-> 0]
    /\ db = [p \in Participants |-> SyncSeed]
    /\ clock = 3
    /\ wm = [c \in Clients |-> UtcNow(2)]
    /\ used = {"f1", TheMeal}
    /\ lastReq = NoReq
    /\ lastResp = NoReq
    /\ preDb = EmptyStore
    /\ hist = [HistInit EXCEPT !.seen = [c \in Clients |-> VersionsOfStore(SyncSeed)],
                               !.fresh = [c \in Clients |-> TRUE]]
    /\ mutex = Free
    /\ task = NoTasks
    /\ mig = Migrator(CurrentSchema)
    /\ api_key = None

MealId(s, u) == LET m == get_meal_entry_by_uuid(s, u) IN IF m = NoRow THEN 0 ELSE m.id

\* bookkeeping of a local operation op of participant p
AfterLocal(p, op) ==
    [hist EXCEPT !.nLocal = @ + 1,
                 !.ops = @ \cup {[p |-> p, op |-> op, at |-> clock]},
                 !.fresh = IF p = Server THEN [c \in Clients |-> FALSE] ELSE @]

\* p changes the serving of the meal entry (GrubService::update_meal on a
\* client, PUT /api/meals/{id} on the server)
UpdateMeal(p) ==
    /\ hist.nLocal < MaxLocal
    /\ MealId(db[p], TheMeal) # 0
    /\ db' = [db EXCEPT ![p] = update_meal_entry(@, MealId(@, TheMeal),
                                                 [NoPatch EXCEPT !.serving_g = Some(100 + clock)],
                                                 LocalNow(p, clock))]
    /\ clock' = clock + 1
    /\ hist' = AfterLocal(p, "update")
    /\ UNCHANGED <<tz, api_key, mutex, task, mig, wm, used, lastReq, lastResp, preDb>>

\* p deletes the meal entry (GrubService::delete_meal on a client,
\* DELETE /api/meals/{id} on the server)
DeleteMeal(p) ==
    /\ hist.nLocal < MaxLocal
    /\ MealId(db[p], TheMeal) # 0
    /\ db' = [db EXCEPT ![p] =
                IF p = Server
                THEN rest_delete_meal(@, MealId(@, TheMeal))
                ELSE service_delete_meal(@, MealId(@, TheMeal), LocalNow(p, clock))]
    /\ clock' = clock + 1
    /\ hist' = AfterLocal(p, "delete")
    /\ UNCHANGED <<tz, api_key, mutex, task, mig, wm, used, lastReq, lastResp, preDb>>

\* After the entry is gone everywhere, a device that is not otherwise followed
\* sends the entry to the server again (POST /sync), edited either right after
\* the deletion or just now.
ReInsert ==
    /\ hist.nLocal < MaxLocal
    /\ \E o \in hist.ops : o.op = "delete"
    /\ \A o \in hist.ops : o.op # "reinsert"
    /\ \A p \in Participants : MealId(db[p], TheMeal) = 0
    /\ \E o \in hist.ops : \E e \in {o.at + 1, clock} :
          LET raw == [EmptyReq(NoTs) EXCEPT
                         !.meal_entries =
                             <<MealIn(TheMeal, "f1", 100 + e, UtcNow(e))>>]
              out == push_sync(db[Server], raw, clock + 1)
          IN /\ o.op = "delete"
             /\ db' = [db EXCEPT ![Server] = out.db]
             /\ lastReq' = [status |-> out.status, raw |-> raw, req |-> out.req,
                            at |-> clock + 1]
             /\ lastResp' = out.delta
             /\ preDb' = db[Server]
             /\ hist' = [AfterLocal(Server, "reinsert") EXCEPT !.retry = FALSE]
    /\ clock' = clock + 4
    /\ UNCHANGED <<tz, api_key, mutex, task, mig, wm, used>>

\* the body of a client's push: its changes since its watermark
PushBody(c) ==
    LET d == changes_since(db[c], wm[c], NoTs)
    IN [since |-> wm[c], foods |-> d.foods, meal_entries |-> d.meal_entries,
        recipes |-> d.recipes, recipe_ingredients |-> d.recipe_ingredients,
        targets |-> d.targets, weight_entries |-> d.weight_entries,
        tombstones |-> d.tombstones]

\* client c pushes (POST /sync), merges the response and keeps its server_timestamp
Push(c) ==
    LET raw == PushBody(c)
        out == push_sync(db[Server], raw, clock)
    IN /\ hist.nSync < MaxSync
       /\ out.status = 200
       /\ db' = [db EXCEPT
                   ![Server] = out.db,
                   ![c] = apply_remote_changes(@, out.delta, LocalNow(c, clock + 3))]
       /\ wm' = [wm EXCEPT ![c] = out.delta.server_timestamp]
       /\ clock' = clock + 4
       /\ lastReq' = [status |-> out.status, raw |-> raw, req |-> out.req, at |-> clock]
       /\ lastResp' = out.delta
       /\ preDb' = db[Server]
       /\ hist' = [hist EXCEPT
                     !.nSync = @ + 1,
                     !.retry = FALSE,
                     !.pushed[c] = clock,
                     !.seen[c] = @ \cup VersionsOfDelta(out.req)
                                   \cup VersionsOfDelta(out.delta),
                     !.fresh = [x \in Clients |-> x = c]]
       /\ UNCHANGED <<tz, api_key, mutex, task, mig, used>>

\* c holds changes of its own that it has not pushed yet
Pending(c) ==
    LET raw == PushBody(c)
    IN Len(raw.foods) + Len(raw.meal_entries) + Len(raw.tombstones) > 0

\* client c, with nothing to push, pulls (GET /sync?since=watermark), merges the
\* response and keeps its server_timestamp
Pull(c) ==
    LET resp == get_sync_delta(db[Server], wm[c], clock)
    IN /\ hist.nSync < MaxSync
       /\ ~Pending(c)
       /\ db' = [db EXCEPT ![c] = apply_remote_changes(@, resp, LocalNow(c, clock + 1))]
       /\ wm' = [wm EXCEPT ![c] = resp.server_timestamp]
       /\ clock' = clock + 2
       /\ hist' = [hist EXCEPT
                     !.nSync = @ + 1,
                     !.pulled[c] = clock,
                     !.seen[c] = @ \cup VersionsOfDelta(resp),
                     !.fresh[c] = TRUE]
       /\ UNCHANGED <<tz, api_key, mutex, task, mig, used, lastReq, lastResp, preDb>>

NextSync ==
    \/ \E p \in Participants : UpdateMeal(p)
    \/ \E p \in Participants : DeleteMeal(p)
    \/ ReInsert
    \/ \E c \in Clients : Push(c)
    \/ \E c \in Clients : Pull(c)

SpecSync == InitSync /\ [][NextSync]_vars

(***************************************************************************)
(* Properties of the sync protocol (SpecSync)                              *)
(***************************************************************************)
MealAt(p) == get_meal_entry_by_uuid(db[p], TheMeal)

OpsOf(op) == {o \in hist.ops : o.op = op}

MaxOf(S) == CHOOSE x \in S : \A y \in S : y <= x

\* the instant of the last push of any client
LastPush == MaxOf({hist.pushed[c] : c \in Clients})

\* every client has pushed after instant t, and pulled after all those pushes
AllSyncedAfter(t) ==
    /\ \A c \in Clients : hist.pushed[c] > t
    /\ \A c \in Clients : hist.pulled[c] > LastPush

\* the only local operations were one update of the entry by each client
TwoClientUpdates ==
    /\ Cardinality(hist.ops) = 2
    /\ \A o \in hist.ops : o.op = "update" /\ o.p \in Clients
    /\ \A c \in Clients : \E o \in hist.ops : o.p = c

\* C1: when each of the two clients has modified the same row, at instants
\* T1 < T2, and both have then pushed and afterwards pulled, in any order, the
\* server and both clients hold the T2 version of the row.
C1_ConcurrentUpdatesConverge ==
    (TwoClientUpdates /\ AllSyncedAfter(MaxOf({o.at : o \in hist.ops})))
        => LET last == CHOOSE o \in hist.ops : \A x \in hist.ops : x.at <= o.at
           IN \A p \in Participants :
                 /\ MealAt(p) # NoRow
                 /\ MealAt(p).updated_at = LocalNow(last.p, last.at)
                 /\ MealAt(p).serving_g = 100 + last.at

\* C2: a client whose last sync is not older than the last write to the server
\* store has been sent (or has itself sent) every row version and tombstone the
\* server holds.
C2_WatermarkNeverMisses ==
    \A c \in Clients :
        hist.fresh[c] => VersionsOfStore(db[Server]) \subseteq hist.seen[c]

\* the rows of a store without their local ids
RowView(s) ==
    {[uuid |-> f.uuid, barcode |-> f.barcode,
      calories_per_100g |-> f.calories_per_100g,
      updated_at |-> f.updated_at] : f \in s.foods}
        \cup {[uuid |-> m.uuid, food_uuid |-> m.food_uuid, serving_g |-> m.serving_g,
               updated_at |-> m.updated_at] : m \in ExportMeals(s)}

\* all local operations so far were made by participant origin, and client c
\* pushed after the last of them and then pulled, while no other client synced
RoundTrip(c, origin) ==
    /\ hist.ops # {}
    /\ \A o \in hist.ops : o.p = origin /\ o.op # "reinsert"
    /\ \A x \in Clients \ {c} : hist.pushed[x] = 0 /\ hist.pulled[x] = 0
    /\ hist.pushed[c] > MaxOf({o.at : o \in hist.ops})
    /\ hist.pulled[c] > hist.pushed[c]

\* C3: starting from equal stores, after a client's local mutations, its push
\* and its pull, client and server hold the same rows; likewise after
\* mutations made on the server, once the client has pushed and pulled.
C3_RoundTripEqual ==
    \A c \in Clients : \A origin \in {c, Server} :
        RoundTrip(c, origin) => RowView(db[c]) = RowView(db[Server])

\* C4: after the row was deleted on one participant and every client has then
\* pushed and pulled, the row is absent on every participant.
C4_DeletionConverges ==
    (/\ Cardinality(hist.ops) = 1
     /\ OpsOf("delete") # {}
     /\ AllSyncedAfter(MaxOf({o.at : o \in hist.ops})))
        => \A p \in Participants : MealAt(p) = NoRow

\* C5: after a deletion has propagated and the row was inserted again with the
\* same uuid and an updated_at later than the deletion, every participant
\* holds the row once every client has pulled.
C5_ReinsertResurrects ==
    (/\ OpsOf("reinsert") # {}
     /\ \A c \in Clients : \A o \in OpsOf("reinsert") : hist.pulled[c] > o.at + 3)
        => \A p \in Participants : MealAt(p) # NoRow
(***************************************************************************)
(* SpecLocal: one store under the handlers that write it outside the sync  *)
(* merge: the REST handlers and the command line on the server store, the  *)
(* GrubService calls on the store of client C1, and POST /sync with bodies *)
(* that carry barcodes.                                                    *)
(***************************************************************************)
MissingId == 99          \* an id no row has
Barcodes == {"b1"}

IngredientIn(food_id, quantity_g) == [food_id |-> food_id, quantity_g |-> quantity_g]

\* the ingredient lists of a request: none, one, one followed by a bad quantity,
\* one followed by a food that does not exist
IngredientLists ==
    {<<>>, <<IngredientIn(1, 100)>>,
     <<IngredientIn(1, 100), IngredientIn(1, 0)>>,
     <<IngredientIn(1, 100), IngredientIn(MissingId, 100)>>}

CreateRecipeBodies ==
    {[portions |-> n, ingredients |-> l] : n \in {0, 2}, l \in IngredientLists}

UpdateRecipeBodies ==
    {[set_portions |-> TRUE, portions |-> n, set_ingredients |-> FALSE,
      ingredients |-> <<>>] : n \in {0, 2}}
        \cup {[set_portions |-> sp, portions |-> 2, set_ingredients |-> TRUE,
               ingredients |-> l] : sp \in BOOLEAN, l \in IngredientLists}

NewFoodBodies ==
    {[barcode |-> b, calories_per_100g |-> c, default_serving_g |-> 100,
      source |-> "user"] : b \in Barcodes \cup {NoBarcode}, c \in {-1, 100}}

FoodWithBarcode(u, barcode, ts) == [FoodIn(u, 100, ts) EXCEPT !.barcode = barcode]

\* POST /sync bodies: a food with a barcode; a newer version of f1 followed by
\* a food with a barcode; a food whose updated_at was left out of the JSON
BarcodeBodies ==
    LET e == EmptyReq(NoTs)
    IN {[e EXCEPT !.foods = <<FoodWithBarcode("f3", b, UtcNow(4))>>] : b \in Barcodes}
       \cup {[e EXCEPT !.foods = <<FoodIn("f1", 240, UtcNow(4)),
                                   FoodWithBarcode("f4", b, UtcNow(4))>>] : b \in Barcodes}
       \cup {[e EXCEPT !.foods = <<FoodIn("f5", 100, EmptyTs)>>]}

LocalSeed == apply_remote_changes(EmptyStore, SeedReq, Rfc3339(4, 0))

InitLocal ==
    /\ tz = [p \in Participants |-> 0]
    /\ db = [p \in Participants |-> LocalSeed]
    /\ clock = 5
    /\ wm = [c \in Clients |-> NoTs]
    /\ used = FoodUuids \cup {"m1", "r1", "i1", "w1"}
    /\ lastReq = NoReq
    /\ lastResp = NoReq
    /\ preDb = EmptyStore
    /\ hist = HistInit
    /\ mutex = Free
    /\ task = NoTasks
    /\ mig = Migrator(CurrentSchema)
    /\ api_key = None

\* the bookkeeping every action of SpecLocal does: the store of p becomes s,
\* n uuids were handed out, the request is remembered with its status
Handled(p, s, n, status, op, via, id) ==
    /\ hist.nLocal < MaxOps
    /\ db' = [db EXCEPT ![p] = s]
    /\ used' = used \cup {NewUuid(used, k) : k \in 1..n}
    /\ clock' = clock + 1
    /\ lastReq' = [status |-> status, op |-> op, via |-> via, p |-> p, id |-> id]
    /\ preDb' = db[p]
    /\ hist' = [hist EXCEPT !.nLocal = @ + 1]
    /\ UNCHANGED <<tz, api_key, mutex, task, mig, wm, lastResp>>

\* the client deletes meal entry id through GrubService::delete_meal
ServiceDeleteMeal(c, id) ==
    Handled(c, service_delete_meal(db[c], id, LocalNow(c, clock)), 0,
            200, "delete_meal", "service", id)

\* DELETE /api/meals/{id}
RestDeleteMeal(id) ==
    Handled(Server, rest_delete_meal(db[Server], id), 0,
            IF ById(db[Server].meals, id) # NoRow THEN 204 ELSE 404,
            "delete_meal", "rest", id)

\* grub delete <id> on the command line
CliDeleteMeal(id) ==
    Handled(Server, cli_delete_meal(db[Server], id), 0,
            IF ById(db[Server].meals, id) # NoRow THEN 0 ELSE 2,
            "delete_meal", "cli", id)

\* the client deletes recipe id through GrubService::delete_recipe
ServiceDeleteRecipe(c, id) ==
    Handled(c, service_delete_recipe(db[c], id, LocalNow(c, clock)), 0,
            IF /\ ById(db[c].recipes, id) # NoRow
               /\ ById(db[c].foods, ById(db[c].recipes, id).food_id) # NoRow
            THEN 200 ELSE 500,
            "delete_recipe", "service", id)

\* DELETE /api/recipes/{id}
RestDeleteRecipe(id) ==
    Handled(Server, rest_delete_recipe(db[Server], id), 0,
            IF ById(db[Server].recipes, id) # NoRow THEN 204 ELSE 404,
            "delete_recipe", "rest", id)

\* POST /api/recipes
RestCreateRecipe(req) ==
    LET out == rest_create_recipe(db[Server], req, used, LocalNow(Server, clock))
    IN Handled(Server, out.s, out.n, out.status, "create_recipe", "rest", 0)

\* PUT /api/recipes/{id}
RestUpdateRecipe(id, req) ==
    LET out == rest_update_recipe(db[Server], id, req, used, LocalNow(Server, clock))
    IN Handled(Server, out.s, out.n, out.status, "update_recipe", "rest", id)

\* POST /api/foods
RestCreateFood(req) ==
    LET out == rest_create_food(db[Server], req, used, LocalNow(Server, clock))
    IN Handled(Server, out.s, out.n, out.status, "create_food", "rest", 0)

\* GET /api/foods/barcode/{code} after the provider found the product:
\* upsert_food_by_barcode caches it
CacheFood(req) ==
    LET out == upsert_food_by_barcode(db[Server], req, NewUuid(used, 1),
                                      LocalNow(Server, clock))
    IN /\ req.barcode # NoBarcode
       /\ req.calories_per_100g >= 0
       /\ Handled(Server, out.s, 1, IF out.ok THEN 200 ELSE 500,
                  "cache_food", "rest", 0)

\* POST /sync with a body of BarcodeBodies
LocalPushSync(raw) ==
    LET out == push_sync(db[Server], raw, clock)
    IN Handled(Server, out.db, 0, out.status, "sync", "rest", 0)

NextLocal ==
    \/ \E id \in {1, MissingId} : ServiceDeleteMeal("C1", id)
    \/ \E id \in {1, MissingId} : RestDeleteMeal(id)
    \/ \E id \in {1, MissingId} : CliDeleteMeal(id)
    \/ \E id \in {1, MissingId} : ServiceDeleteRecipe("C1", id)
    \/ \E id \in {1, MissingId} : RestDeleteRecipe(id)
    \/ \E req \in CreateRecipeBodies : RestCreateRecipe(req)
    \/ \E id \in {1, MissingId} : \E req \in UpdateRecipeBodies : RestUpdateRecipe(id, req)
    \/ \E req \in NewFoodBodies : RestCreateFood(req)
    \/ \E req \in NewFoodBodies : CacheFood(req)
    \/ \E raw \in BarcodeBodies : LocalPushSync(raw)

SpecLocal == InitLocal /\ [][NextLocal]_vars

(***************************************************************************)
(* Properties of the local handlers (SpecLocal)                            *)
(***************************************************************************)
\* the last request was `op`, and the row it named existed in `rows` before
LastOpOn(op, rows) ==
    hist.nLocal > 0 /\ lastReq.op = op /\ ById(rows, lastReq.id) # NoRow

\* C15: after a recipe was deleted, through GrubService::delete_recipe or
\* through DELETE /recipes/{id}, the recipe, its ingredients and its virtual
\* food are gone from the store, and the store holds a tombstone for each of
\* them.
C15_RecipeDeleteRecordsTombstones ==
    LastOpOn("delete_recipe", preDb.recipes) =>
        LET s == db[lastReq.p]
            recipe == ById(preDb.recipes, lastReq.id)
            ingredient_uuids == UuidsIn({i \in preDb.ings : i.recipe_id = recipe.id})
            food == ById(preDb.foods, recipe.food_id)
        IN /\ get_recipe_by_uuid(s, recipe.uuid) = NoRow
           /\ StoredFor(s, recipe.uuid, "recipes") # {}
           /\ \A u \in ingredient_uuids :
                 /\ get_recipe_ingredient_by_uuid(s, u) = NoRow
                 /\ StoredFor(s, u, "recipe_ingredients") # {}
           /\ food # NoRow =>
                 /\ get_food_by_uuid(s, food.uuid) = NoRow
                 /\ StoredFor(s, food.uuid, "foods") # {}

\* C16: after a live meal entry was deleted, through GrubService::delete_meal,
\* DELETE /meals/{id} or the command line, the entry is gone and the store
\* holds a tombstone with the entry's uuid.
C16_MealDeleteRecordsTombstone ==
    LastOpOn("delete_meal", preDb.meals) =>
        LET s == db[lastReq.p]
            entry == ById(preDb.meals, lastReq.id)
        IN /\ get_meal_entry_by_uuid(s, entry.uuid) = NoRow
           /\ StoredFor(s, entry.uuid, "meal_entries") # {}

\* the statuses of an error response
ErrorStatus == {400, 404, 500}

\* C17: a request that was answered with an error leaves the store exactly as
\* it was before the request.
C17_ErrorLeavesStore ==
    (hist.nLocal > 0 /\ lastReq.status \in ErrorStatus) => db[lastReq.p] = preDb

C20_UuidAndUpdatedAtSet ==
    \A p \in Participants :
        \A r \in db[p].foods \cup db[p].meals \cup db[p].recipes
                    \cup db[p].ings \cup db[p].weights :
            /\ r.uuid # EmptyUuid
            /\ r.updated_at # EmptyTs
            /\ r.updated_at # NoTs

(***************************************************************************)
(* SpecConc: concurrent requests on the server.  Every handler takes the   *)
(* state.db mutex before it touches the store and holds it until it        *)
(* returns; a POST /sync applies the steps of its merge one at a time      *)
(* while it holds the mutex.                                               *)
(***************************************************************************)
\* Database::build_daily_summary for the one date of the model: the entries
\* of get_entries_for_date (meal_entries JOIN foods) with their calories, and
\* the target of the day
build_daily_summary(s) ==
    [entries |-> {[uuid |-> m.uuid, serving_g |-> m.serving_g,
                   calories |-> (ById(s.foods, m.food_id).calories_per_100g
                                     * m.serving_g) \div 100]
                    : m \in {x \in s.meals : ById(s.foods, x.food_id) # NoRow}},
     targets |-> s.targets]

\* Database::export_all: the get_all_* queries, which are those of
\* changes_since with no since, stamped exported_at; version 3, no legacy target
export_all(s, exported_at) ==
    [version |-> 3, target |-> NoRow] @@ changes_since(s, NoTs, exported_at)

\* what reader r gets from the store s at instant t
ReadStore(r, s, t) ==
    CASE r = "summary" -> build_daily_summary(s)
      [] r = "pull" -> get_sync_delta(s, NoTs, t)
      [] r = "export" -> export_all(s, LocalNow(Server, t))

\* POST /sync bodies: a food with a barcode; a newer f1 followed by a food with
\* the same barcode; rows for steps 1, 2, 6 and 7 of the merge; a food that
\* validate_food_data refuses
ConcBodies ==
    LET e == EmptyReq(NoTs)
    IN {[e EXCEPT !.foods = <<FoodWithBarcode("f3", "b1", UtcNow(4))>>],
        [e EXCEPT !.foods = <<FoodIn("f1", 240, UtcNow(4)),
                              FoodWithBarcode("f4", "b1", UtcNow(4))>>],
        [e EXCEPT !.foods = <<FoodIn("f1", 240, UtcNow(4))>>,
                  !.meal_entries = <<MealIn("m1", "f1", 200, UtcNow(4))>>,
                  !.tombstones = <<TombIn("i1", "recipe_ingredients", UtcNow(4))>>,
                  !.weight_entries = <<WeightIn("w1", 1, 71, UtcNow(4))>>],
        [e EXCEPT !.foods = <<FoodIn("f1", -1, UtcNow(4))>>]}

InitConc ==
    /\ tz = [p \in Participants |-> 0]
    /\ db = [p \in Participants |-> LocalSeed]
    /\ clock = 5
    /\ wm = [c \in Clients |-> NoTs]
    /\ used = FoodUuids \cup {"m1", "r1", "i1", "w1"}
    /\ lastReq = NoReq
    /\ lastResp = NoReq
    /\ preDb = EmptyStore
    /\ hist = HistInit
    /\ mutex = Free
    /\ task = NoTasks
    /\ mig = Migrator(CurrentSchema)
    /\ api_key = None

\* POST /sync arrives: the validation loops run before the mutex is taken
ArrivePush(q, raw) ==
    /\ task[q].pc = "new"
    /\ task' = [task EXCEPT ![q] =
                  IF ~ValidPush(raw) THEN [pc |-> "done", status |-> 400]
                  ELSE [pc |-> "wait",
                        req |-> [raw EXCEPT !.tombstones =
                                   [k \in 1..Len(raw.tombstones) |->
                                       validate_tombstone(raw.tombstones[k], clock)]]]]
    /\ clock' = clock + 1
    /\ UNCHANGED <<db, tz, api_key, mig, mutex, wm, used, lastReq, lastResp, preDb, hist>>

\* a GET arrives
ArriveRead(r) ==
    /\ task[r].pc = "new"
    /\ task' = [task EXCEPT ![r] = [pc |-> "wait"]]
    /\ UNCHANGED <<db, tz, api_key, mig, mutex, clock, wm, used, lastReq, lastResp, preDb, hist>>

\* push_sync: state.db.lock(), server_timestamp, changes_since; the locals of
\* apply_remote_changes are set up and `now` is what Local::now() returns in it
LockPush(q) ==
    /\ task[q].pc = "wait"
    /\ mutex = Free
    /\ mutex' = q
    /\ task' = [task EXCEPT ![q] =
                  [pc |-> "merge", status |-> 0, req |-> @.req, step |-> 0,
                   delta |-> changes_since(db[Server], @.req.since, UtcNow(clock)),
                   now |-> LocalNow(Server, clock + 1),
                   pre |-> db[Server],
                   st |-> MergeStart(db[Server])]]
    /\ clock' = clock + 2
    /\ UNCHANGED <<db, tz, api_key, mig, wm, used, lastReq, lastResp, preDb, hist>>

\* the next step of apply_remote_changes, on the store as it is now
Merge(q) ==
    LET k == task[q].step + 1
        st == MergeStep(k, [task[q].st EXCEPT !.s = db[Server]], task[q].req, task[q].now)
    IN /\ task[q].pc = "merge"
       /\ mutex = q
       /\ k <= MergeSteps
       /\ ~task[q].st.err
       /\ db' = [db EXCEPT ![Server] = st.s]
       /\ task' = [task EXCEPT ![q].step = k, ![q].st = st]
       /\ UNCHANGED <<tz, api_key, mig, mutex, clock, wm, used, lastReq, lastResp, preDb, hist>>

\* push_sync returns, Ok after the last step or Err after the step that
\* failed, and the guard is dropped
UnlockPush(q) ==
    /\ task[q].pc = "merge"
    /\ mutex = q
    /\ task[q].st.err \/ task[q].step = MergeSteps
    /\ mutex' = Free
    /\ task' = [task EXCEPT ![q].pc = "done",
                            ![q].status = IF task[q].st.err THEN 500 ELSE 200]
    /\ UNCHANGED <<db, tz, api_key, mig, clock, wm, used, lastReq, lastResp, preDb, hist>>

\* a read handler: state.db.lock()
LockRead(r) ==
    /\ task[r].pc = "wait"
    /\ mutex = Free
    /\ mutex' = r
    /\ task' = [task EXCEPT ![r] = [pc |-> "locked"]]
    /\ UNCHANGED <<db, tz, api_key, mig, clock, wm, used, lastReq, lastResp, preDb, hist>>

\* the read handler runs its queries
Read(r) ==
    /\ task[r].pc = "locked"
    /\ mutex = r
    /\ task' = [task EXCEPT ![r] = [pc |-> "read", seen |-> ReadStore(r, db[Server], clock)]]
    /\ clock' = clock + 1
    /\ UNCHANGED <<db, tz, api_key, mig, mutex, wm, used, lastReq, lastResp, preDb, hist>>

\* the read handler returns and the guard is dropped
UnlockRead(r) ==
    /\ task[r].pc = "read"
    /\ mutex = r
    /\ mutex' = Free
    /\ task' = [task EXCEPT ![r].pc = "done"]
    /\ UNCHANGED <<db, tz, api_key, mig, clock, wm, used, lastReq, lastResp, preDb, hist>>

NextConc ==
    \/ \E q \in Pushers : \E raw \in ConcBodies : ArrivePush(q, raw)
    \/ \E r \in Readers : ArriveRead(r)
    \/ \E q \in Pushers : LockPush(q)
    \/ \E q \in Pushers : Merge(q)
    \/ \E q \in Pushers : UnlockPush(q)
    \/ \E r \in Readers : LockRead(r)
    \/ \E r \in Readers : Read(r)
    \/ \E r \in Readers : UnlockRead(r)

SpecConc == InitConc /\ [][NextConc]_vars

(***************************************************************************)
(* Properties of concurrent requests (SpecConc)                            *)
(***************************************************************************)
\* the merge of q has taken the mutex
Started(q) == task[q].pc \in {"merge", "done"} /\ "step" \in DOMAIN task[q]

\* the merge of q has applied all its steps
Completed(q) == Started(q) /\ task[q].step = MergeSteps

\* the merge of q wrote to the store and did not apply all its steps
PartlyApplied(q) == Started(q) /\ ~Completed(q) /\ task[q].st.s # task[q].pre

\* while q holds the mutex no other request holds it, and the store is what
\* the steps of q so far made of it
MergeIsolated ==
    \A q \in Pushers : task[q].pc = "merge" =>
        /\ mutex = q
        /\ db[Server] = task[q].st.s
        /\ \A r \in Readers : task[r].pc \notin {"locked", "read"}

\* a merge that returned Ok left the store apply_remote_changes computes in one go
StepsMakeTheMerge ==
    \A q \in Pushers : (Completed(q) /\ mutex = q) =>
        db[Server] = apply_remote_changes(task[q].pre, task[q].req, task[q].now)

\* C18: when a read handler reads the store, every merge that has started has
\* applied all its steps, or none of its writes: the reader never sees a
\* store in which only some steps of a merge are applied.
C18_ReadersSeeWholeMerges ==
    \A r \in Readers : task[r].pc = "read" =>
        \A q \in Pushers : ~PartlyApplied(q)

(***************************************************************************)
(* Import (Database::import_all, POST /api/import)                         *)
(***************************************************************************)
Max(a, b) == IF a > b THEN a ELSE b

\* step 6 of merge_import for one tombstone: apply_tombstone with the set
\* recipes_to_recompute, which gains the recipe of a deleted ingredient
ImportTombstone(st, tombstone) ==
    LET local == get_recipe_ingredient_by_uuid(st.s, tombstone.uuid)
        after == apply_tombstone(st.s, tombstone)
    IN [st EXCEPT
          !.s = after,
          !.recipes_to_recompute =
              IF tombstone.table_name = "recipe_ingredients" /\ after # st.s
              THEN @ \cup {local.recipe_id} ELSE @]

\* step 7 of merge_import for one tombstone: store it unless a tombstone with
\* the same uuid and table_name is already stored
StoreTombstone(s, tombstone) ==
    IF \E k \in 1..Len(s.tombs) : /\ s.tombs[k].uuid = tombstone.uuid
                                  /\ s.tombs[k].table_name = tombstone.table_name
    THEN s
    ELSE [s EXCEPT !.tombs = Append(@, tombstone)]

\* the legacy singleton target as seven ExportTargets, days 0 to 6
ExpandLegacy(legacy) ==
    [k \in 1..7 |->
        [day_of_week |-> k - 1, calories |-> legacy.calories,
         protein_pct |-> legacy.protein_pct, carbs_pct |-> legacy.carbs_pct,
         fat_pct |-> legacy.fat_pct, updated_at |-> legacy.updated_at]]

\* targets_to_merge of merge_import: data.targets, else the legacy target on
\* every day, else nothing
targets_to_merge(data) ==
    IF data.targets # <<>> THEN data.targets
    ELSE IF data.target # NoRow THEN ExpandLegacy(data.target)
    ELSE <<>>

\* Database::merge_import, steps 1 to 8 in the order of the code
merge_import(s, data, now) ==
    LET st1 == FoldSeq(MergeFood, ImportStart(s), data.foods)
        st2 == FoldSeq(MergeMeal, st1, data.meal_entries)
        st3 == FoldSeq(MergeRecipe, st2, data.recipes)
        st4 == FoldSeq(LAMBDA a, x : MergeIng(a, x, now), st3, data.recipe_ingredients)
        s4 == RecomputeAll(st4.s, st4.recipes_to_recompute, now)
        s5 == FoldSeq(LAMBDA a, x : MergeTarget(a, x, now), s4, targets_to_merge(data))
        st6 == FoldSeq(ImportTombstone, [st4 EXCEPT !.s = s5], data.tombstones)
        s7 == FoldSeq(StoreTombstone, st6.s, data.tombstones)
        s7b == RecomputeAll(s7, {r \in st6.recipes_to_recompute :
                                    ById(s7.recipes, r) # NoRow}, now)
    IN IF st4.err THEN [s |-> st4.s, ok |-> FALSE]
       ELSE [s |-> FoldSeq(MergeWeight, s7b, data.weight_entries), ok |-> TRUE]

\* insert_food_for_import: nothing when the barcode is taken; the INSERT names
\* neither uuid nor updated_at, so both are NULL (read back as "")
insert_food_for_import(s, food) ==
    IF BarcodeTaken(s.foods, food.barcode, 0) THEN s
    ELSE [s EXCEPT
            !.seq.foods = Max(@, food.id),
            !.foods = @ \cup
                {[id |-> food.id, uuid |-> EmptyUuid, barcode |-> food.barcode,
                  calories_per_100g |-> food.calories_per_100g,
                  default_serving_g |-> food.default_serving_g,
                  source |-> food.source, created_at |-> food.created_at,
                  updated_at |-> EmptyTs]}]

\* import_foods, one food: UPDATE by id when the id exists, else insert
ImportFood(st, food) ==
    LET existing == ById(st.s.foods, food.id)
    IN IF ~st.ok THEN st
       ELSE IF existing = NoRow
       THEN [st EXCEPT !.s = insert_food_for_import(@, food)]
       ELSE IF BarcodeTaken(st.s.foods, food.barcode, food.id)
       THEN [st EXCEPT !.ok = FALSE]
       ELSE [st EXCEPT !.s.foods = (@ \ {existing}) \cup
                {[existing EXCEPT !.barcode = food.barcode,
                                  !.calories_per_100g = food.calories_per_100g,
                                  !.default_serving_g = food.default_serving_g,
                                  !.source = food.source]}]

\* import_meal_entries, one entry: INSERT OR REPLACE by id, uuid and
\* updated_at left NULL
ImportMeal(s, entry) ==
    [s EXCEPT
       !.seq.meals = Max(@, entry.id),
       !.meals = {m \in @ : m.id # entry.id} \cup
           {[id |-> entry.id, uuid |-> EmptyUuid, food_id |-> entry.food_id,
             meal_type |-> entry.meal_type, serving_g |-> entry.serving_g,
             created_at |-> entry.created_at, updated_at |-> EmptyTs]}]

\* import_recipes, one recipe: INSERT OR REPLACE (it replaces the row of the
\* same id and the row of the same food_id), then DELETE its ingredients
ImportRecipe(s, recipe) ==
    [s EXCEPT
       !.seq.recipes = Max(@, recipe.id),
       !.recipes = {r \in @ : r.id # recipe.id /\ r.food_id # recipe.food_id} \cup
           {[id |-> recipe.id, uuid |-> EmptyUuid, food_id |-> recipe.food_id,
             portions |-> recipe.portions, created_at |-> recipe.created_at,
             updated_at |-> EmptyTs]},
       !.ings = {i \in @ : i.recipe_id # recipe.id}]

\* import_recipes, one ingredient: a plain INSERT with the id of the file,
\* which fails when the id is taken
ImportIng(st, ing) ==
    IF ~st.ok THEN st
    ELSE IF ById(st.s.ings, ing.id) # NoRow THEN [st EXCEPT !.ok = FALSE]
    ELSE [st EXCEPT
            !.s.seq.ings = Max(@, ing.id),
            !.s.ings = @ \cup
                {[id |-> ing.id, uuid |-> EmptyUuid, recipe_id |-> ing.recipe_id,
                  food_id |-> ing.food_id, quantity_g |-> ing.quantity_g,
                  updated_at |-> EmptyTs]}]

\* import_targets: INSERT OR REPLACE of data.targets, else of the legacy
\* target on days 0 to 6, all stamped now
import_targets(s, data, now) ==
    FoldSeq(LAMBDA a, x :
                [a EXCEPT !.targets =
                    {t \in @ : t.day_of_week # x.day_of_week}
                        \cup {[x EXCEPT !.updated_at = now]}],
            s, targets_to_merge(data))

\* import_weight_entries, one entry: INSERT OR REPLACE (date is UNIQUE)
ImportWeight(s, entry) ==
    [s EXCEPT !.weights = {w \in @ : w.date # entry.date} \cup {entry}]

\* Database::import_v1; the tombstones of the file are not read
import_v1(s, data, now) ==
    LET st1 == FoldSeq(ImportFood, [s |-> s, ok |-> TRUE], data.foods)
        s2 == FoldSeq(ImportMeal, st1.s, data.meal_entries)
        s3 == FoldSeq(ImportRecipe, s2, data.recipes)
        st3 == FoldSeq(ImportIng, [s |-> s3, ok |-> TRUE], data.recipe_ingredients)
        s4 == import_targets(st3.s, data, now)
    IN IF ~st1.ok THEN st1
       ELSE IF ~st3.ok THEN st3
       ELSE [s |-> FoldSeq(ImportWeight, s4, data.weight_entries), ok |-> TRUE]

\* Database::import_all
import_all(s, data, now) ==
    IF data.version >= 2 THEN merge_import(s, data, now) ELSE import_v1(s, data, now)

\* the validation loops that open import_data; data.target is not among them
ValidImport(data) ==
    /\ AllOf(data.foods, validate_food_data)
    /\ AllOf(data.meal_entries, validate_export_meal_entry)
    /\ AllOf(data.recipes, validate_export_recipe)
    /\ AllOf(data.recipe_ingredients, validate_export_recipe_ingredient)
    /\ AllOf(data.targets, validate_export_target)
    /\ AllOf(data.weight_entries, validate_export_weight_entry)
    /\ AllOf(data.tombstones, TombstoneAccepted)

\* POST /api/import at instant t: validate_tombstone reads the clock at t, the
\* import at t + 1
import_data(s, raw, t) ==
    LET data == [raw EXCEPT !.tombstones =
                    [k \in 1..Len(raw.tombstones) |-> validate_tombstone(raw.tombstones[k], t)]]
        out == import_all(s, data, LocalNow(Server, t + 1))
    IN IF ~ValidImport(raw) THEN [status |-> 400, data |-> raw, db |-> s]
       ELSE IF ~out.ok THEN [status |-> 500, data |-> data, db |-> out.s]
       ELSE [status |-> 200, data |-> data, db |-> out.s]

\* Database::set_target: INSERT OR REPLACE, stamped now
set_target(s, day_of_week, calories, protein_pct, carbs_pct, fat_pct, now) ==
    [s EXCEPT !.targets = {x \in @ : x.day_of_week # day_of_week} \cup
        {[day_of_week |-> day_of_week, calories |-> calories,
          protein_pct |-> protein_pct, carbs_pct |-> carbs_pct, fat_pct |-> fat_pct,
          updated_at |-> now]}]

\* PUT /api/targets/{day}
rest_set_target(s, day, req, now) ==
    IF day \notin 0..6 \/ req.calories <= 0 \/ ~ValidMacros(req)
    THEN [status |-> 400, s |-> s]
    ELSE [status |-> 200,
          s |-> set_target(s, day, req.calories, req.protein_pct, req.carbs_pct,
                           req.fat_pct, now)]

\* Database::insert_meal_entry
insert_meal_entry(s, entry, uuid, now) ==
    LET new_id == s.seq.meals + 1
    IN [s EXCEPT
          !.seq.meals = new_id,
          !.meals = @ \cup
              {[id |-> new_id, uuid |-> uuid, food_id |-> entry.food_id,
                meal_type |-> entry.meal_type, serving_g |-> entry.serving_g,
                created_at |-> now, updated_at |-> now]}]

\* POST /api/meals: the entry is stored with the meal type validate_meal_type
\* returns
rest_create_meal(s, req, uuid, now) ==
    LET meal_type == validate_meal_type(req.meal_type)
    IN IF ~meal_type.ok \/ req.serving_g <= 0 \/ ById(s.foods, req.food_id) = NoRow
       THEN [status |-> 400, s |-> s, n |-> 0]
       ELSE [status |-> 201, n |-> 1,
             s |-> insert_meal_entry(s, [req EXCEPT !.meal_type = meal_type.lower],
                                     uuid, now)]

(***************************************************************************)
(* SpecImport: the server with POST /api/import, POST /sync, PUT           *)
(* /api/targets/{day} and POST /api/meals, and a second device that        *)
(* imports the server's export into a new database                         *)
(***************************************************************************)
MaxImports == 3        \* requests in a run of SpecImport and of SpecAuth

\* an ExportData file of the given version with nothing in it
EmptyExport(version) ==
    [version |-> version, target |-> NoRow, foods |-> <<>>, meal_entries |-> <<>>,
     recipes |-> <<>>, recipe_ingredients |-> <<>>, targets |-> <<>>,
     weight_entries |-> <<>>, tombstones |-> <<>>]

\* a LegacyExportTarget
LegacyIn(kcal, protein, carbs, fat, ts) ==
    [calories |-> kcal, protein_pct |-> protein, carbs_pct |-> carbs,
     fat_pct |-> fat, updated_at |-> ts]

\* macro splits a target may arrive with: none, one of three, all three
\* summing to 100, all three summing to 150
MacroSplits ==
    {<<None, None, None>>, <<Some(50), None, None>>,
     <<Some(40), Some(30), Some(30)>>, <<Some(50), Some(50), Some(50)>>}

\* the splits a legacy target is tried with
LegacySplits == MacroSplits \ {<<Some(50), Some(50), Some(50)>>}

WithMacros(target, split) ==
    [target EXCEPT !.protein_pct = split[1], !.carbs_pct = split[2],
                   !.fat_pct = split[3]]

\* meal types an entry may arrive with
MealTypesIn == {"Lunch", "brunch"}

\* tombstones a request may carry: one that deletes m1, one from the far
\* future, one for a table outside the four, one whose deleted_at is ""
TombstonesIn ==
    {TombIn("m1", "meal_entries", UtcNow(4)),
     TombIn("i1", "recipe_ingredients", UtcNow(FarFuture)),
     TombIn("w1", "weight_entries", UtcNow(4)),
     TombIn("m1", "meal_entries", EmptyTs)}

\* the files POST /api/import is tried with
ImportBodies ==
    {[EmptyExport(v) EXCEPT !.target = WithMacros(LegacyIn(2000, None, None, None, ts),
                                                  split)]
        : v \in {1, 3}, split \in LegacySplits, ts \in {NoTs}}
    \cup {[EmptyExport(3) EXCEPT !.target = WithMacros(LegacyIn(2000, None, None, None,
                                                               UtcNow(4)), split)]
            : split \in LegacySplits}
    \cup {[EmptyExport(3) EXCEPT !.targets = <<WithMacros(TargetIn(0, 1800, UtcNow(4)),
                                                           split)>>]
            : split \in MacroSplits}
    \cup {[EmptyExport(1) EXCEPT !.targets = <<WithMacros(TargetIn(0, 1800, UtcNow(4)),
                                                           <<Some(50), None, None>>)>>]}
    \cup {[EmptyExport(v) EXCEPT
              !.foods = <<FoodIn("f1", 120, UtcNow(3))>>,
              !.meal_entries = <<[MealIn("m2", "f1", 200, UtcNow(4)) EXCEPT
                                     !.id = 2, !.meal_type = m]>>]
            : v \in {1, 3}, m \in MealTypesIn}
    \cup {[EmptyExport(3) EXCEPT
              !.meal_entries = <<[MealIn("m2", "f1", 200, UtcNow(4)) EXCEPT !.id = 2]>>]}
    \cup {[EmptyExport(3) EXCEPT !.tombstones = <<tombstone>>]
            : tombstone \in TombstonesIn}
    \cup {[EmptyExport(1) EXCEPT !.tombstones = <<TombIn("m1", "meal_entries", UtcNow(4))>>]}
    \cup {[EmptyExport(1) EXCEPT
              !.foods = <<[FoodIn("f3", 100, UtcNow(4)) EXCEPT !.id = 3]>>,
              !.recipes = <<[RecipeIn("r1", "f2", 2, UtcNow(4)) EXCEPT !.food_id = 2]>>,
              !.recipe_ingredients = <<[IngIn("i1", "r1", "f1", 200) EXCEPT !.id = k]>>,
              !.weight_entries = <<WeightIn("w2", 1, 71, UtcNow(4))>>]
            : k \in {1, 2}}

\* the bodies POST /sync is tried with
ImportPushBodies ==
    LET e == EmptyReq(NoTs)
    IN {[e EXCEPT !.targets = <<WithMacros(TargetIn(0, 1800, UtcNow(4)), split)>>]
            : split \in MacroSplits}
       \cup {[e EXCEPT !.meal_entries = <<[MealIn("m2", "f1", 200, UtcNow(4)) EXCEPT
                                              !.meal_type = m]>>]
               : m \in MealTypesIn}
       \cup {[e EXCEPT !.tombstones = <<tombstone>>] : tombstone \in TombstonesIn}
       \cup {[e EXCEPT !.foods = <<FoodIn("f1", 240, UtcNow(4))>>]}

\* the bodies PUT /api/targets/{day} is tried with
SetTargetBodies ==
    {WithMacros([calories |-> 2200, protein_pct |-> None, carbs_pct |-> None,
                 fat_pct |-> None], split) : split \in MacroSplits}

\* the calls of PUT /api/targets/{day}: every body on day 0, and day 7
SetTargetCalls ==
    {<<0, req>> : req \in SetTargetBodies}
    \cup {<<7, req>> : req \in {x \in SetTargetBodies : x.protein_pct = None}}

\* the bodies POST /api/meals is tried with
CreateMealBodies ==
    {[meal_type |-> m, food_id |-> 1, serving_g |-> 150] : m \in MealTypesIn \cup {"SNACK"}}

InitImport ==
    /\ tz = [p \in Participants |-> 0]
    /\ db = [p \in Participants |-> IF p = Server THEN LocalSeed ELSE EmptyStore]
    /\ clock = 5
    /\ wm = [c \in Clients |-> NoTs]
    /\ used = FoodUuids \cup {"m1", "r1", "i1", "w1"}
    /\ lastReq = NoReq
    /\ lastResp = NoReq
    /\ preDb = EmptyStore
    /\ hist = HistInit
    /\ mutex = Free
    /\ task = NoTasks
    /\ mig = Migrator(CurrentSchema)
    /\ api_key = None

\* the bookkeeping every request of SpecImport does: the server store becomes
\* s, n uuids were handed out, the clock was read `ticks` times
Served(s, n, status, op, body, ticks) ==
    /\ hist.nLocal < MaxImports
    /\ db' = [db EXCEPT ![Server] = s]
    /\ used' = used \cup {NewUuid(used, k) : k \in 1..n}
    /\ clock' = clock + ticks
    /\ lastReq' = [status |-> status, op |-> op, body |-> body, at |-> clock]
    /\ preDb' = db[Server]
    /\ hist' = [hist EXCEPT !.nLocal = @ + 1]
    /\ UNCHANGED <<tz, api_key, mutex, task, mig, wm, lastResp>>

\* POST /api/import
ImportData(raw) ==
    LET out == import_data(db[Server], raw, clock)
    IN Served(out.db, 0, out.status, "import", out.data, 2)

\* POST /sync
ImportPushSync(raw) ==
    LET out == push_sync(db[Server], raw, clock)
    IN Served(out.db, 0, out.status, "sync", out.req, 3)

\* PUT /api/targets/{day}
RestSetTarget(day, req) ==
    LET out == rest_set_target(db[Server], day, req, LocalNow(Server, clock))
    IN Served(out.s, 0, out.status, "set_target", req, 1)

\* POST /api/meals
RestCreateMeal(req) ==
    LET out == rest_create_meal(db[Server], req, NewUuid(used, 1), LocalNow(Server, clock))
    IN Served(out.s, out.n, out.status, "create_meal", req, 1)

\* GET /api/export on the server, then the file imported by device c into a
\* new database
ExportImport(c) ==
    LET data == export_all(db[Server], LocalNow(Server, clock))
        out == import_all(EmptyStore, data, LocalNow(c, clock + 1))
    IN /\ hist.nLocal < MaxImports
       /\ db' = [db EXCEPT ![c] = out.s]
       /\ clock' = clock + 2
       /\ lastReq' = [status |-> IF out.ok THEN 200 ELSE 500, op |-> "export_import",
                      body |-> data, at |-> clock]
       /\ preDb' = db[Server]
       /\ hist' = [hist EXCEPT !.nLocal = @ + 1]
       /\ UNCHANGED <<tz, api_key, mutex, task, mig, wm, used, lastResp>>

NextImport ==
    \/ \E raw \in ImportBodies : ImportData(raw)
    \/ \E raw \in ImportPushBodies : ImportPushSync(raw)
    \/ \E call \in SetTargetCalls : RestSetTarget(call[1], call[2])
    \/ \E req \in CreateMealBodies : RestCreateMeal(req)
    \/ ExportImport("C1")

SpecImport == InitImport /\ [][NextImport]_vars

(***************************************************************************)
(* Properties of the import and of the validated writes (SpecImport)       *)
(***************************************************************************)
\* C22: after any sequence of REST target writes, sync pushes and v1 and v2
\* imports (the legacy singleton target included), every stored daily target
\* has all three macro percentages null, or all three present and summing to
\* exactly 100
C22_TargetMacrosAllOrNone == \A t \in db[Server].targets : ValidMacros(t)

\* C23: after any sequence of REST writes, sync pushes and imports, the
\* meal_type of every stored meal entry is one of breakfast, lunch, dinner,
\* snack, in lower case
C23_MealTypeCanonical == \A m \in db[Server].meals : m.meal_type \in MEAL_TYPES

\* two stores are equivalent: every table has the same number of rows and the
\* same uuids, and foods of the same uuid have the same macro values
Equivalent(a, b) ==
    /\ \A t \in {"foods", "meals", "recipes", "ings", "weights"} :
          /\ Cardinality(a[t]) = Cardinality(b[t])
          /\ UuidsIn(a[t]) = UuidsIn(b[t])
    /\ Cardinality(a.targets) = Cardinality(b.targets)
    /\ Len(a.tombs) = Len(b.tombs)
    /\ \A f \in a.foods : \A g \in b.foods :
          f.uuid = g.uuid => f.calories_per_100g = g.calories_per_100g

\* the last request exported the server store and imported the file into the
\* new database of C1
ExportedAndImported == lastReq.status # 0 /\ lastReq.op = "export_import"

\* C27: exporting any store and importing the export into an empty database
\* yields a database equivalent to the source: the same number of rows in
\* every table, the same uuids and the same macro values
C27_ExportImportEquivalent ==
    ExportedAndImported => Equivalent(preDb, db["C1"])

\* the tombstones of a request body, and those among them a check refuses
Refused(body) == {x \in SeqToSet(body.tombstones) : ~TombstoneAccepted(x)}

\* the last request was a POST /sync or a POST /api/import
PushOrImport == lastReq.status # 0 /\ lastReq.op \in {"sync", "import"}

\* the tombstones the last request added to the server store
NewTombstones == SeqToSet(db[Server].tombs) \ SeqToSet(preDb.tombs)

\* C29: every tombstone that reaches the store through a sync push or an
\* import has a table name among foods, meal_entries, recipes and
\* recipe_ingredients and a deleted_at that parses as RFC 3339 and is not
\* later than the server's time when the request was validated (a later value
\* is replaced by that time); a request with a tombstone that fails the table
\* or the parse check is rejected and leaves the store as it was
C29_TombstonesSanitized ==
    /\ \A x \in SeqToSet(db[Server].tombs) :
          /\ x.table_name \in VALID_TOMBSTONE_TABLES
          /\ parse_from_rfc3339(x.deleted_at)
          /\ Instant(x.deleted_at) < clock
    /\ PushOrImport =>
          /\ \A x \in NewTombstones : Instant(x.deleted_at) <= lastReq.at
          /\ Refused(lastReq.body) # {} =>
                lastReq.status = 400 /\ db[Server] = preDb

\* an import whose tombstone came from the far future and was stored with the
\* instant of the request
C29_Witness ==
    /\ PushOrImport /\ lastReq.op = "import" /\ lastReq.status = 200
    /\ \E x \in NewTombstones :
          /\ x.uuid = "i1"
          /\ x.deleted_at = UtcNow(lastReq.at)
          /\ x \in SeqToSet(lastReq.body.tombstones)

(***************************************************************************)
(* SpecMigrate: a database file at any version is opened, migrate runs     *)
(* statement by statement, the process may be killed, the file is opened   *)
(* again                                                                   *)
(***************************************************************************)
InitMigrate ==
    /\ tz = [p \in Participants |-> 0]
    /\ db = [p \in Participants |-> EmptyStore]
    /\ clock = 5
    /\ wm = [c \in Clients |-> NoTs]
    /\ used = {"f1"}
    /\ lastReq = NoReq
    /\ lastResp = NoReq
    /\ preDb = EmptyStore
    /\ hist = HistInit
    /\ mutex = Free
    /\ task = NoTasks
    /\ \E v \in 0..LatestVersion : \E d \in DatabasesAt(v) : mig = Migrator(d)
    /\ api_key = None

\* Database::open: migrate reads user_version
Open ==
    /\ mig.run.pc # "running"
    /\ mig.runs < MaxRuns
    /\ mig' = [mig EXCEPT
                 !.runs = @ + 1, !.start = mig.d, !.before = mig.d,
                 !.run = [pc |-> "running", version |-> mig.d.user_version, k |-> 1,
                          todo |-> <<>>, applied |-> <<>>]]
    /\ UNCHANGED <<db, tz, api_key, mutex, task, clock, wm, used, lastReq, lastResp, preDb, hist>>

\* `if version < k`: migration k begins, or is passed over
CheckVersion ==
    /\ mig.run.pc = "running" /\ mig.run.todo = <<>> /\ mig.run.k <= LatestVersion
    /\ mig' = IF Due(mig.run.version, mig.run.k)
              THEN [mig EXCEPT !.before = mig.d,
                               !.run.todo = Statements(mig.run.k, mig.d),
                               !.run.applied = Append(@, mig.run.k)]
              ELSE [mig EXCEPT !.run.k = @ + 1]
    /\ UNCHANGED <<db, tz, api_key, mutex, task, clock, wm, used, lastReq, lastResp, preDb, hist>>

\* the next statement of migration k; a refused statement ends migrate with Err
ExecuteNext ==
    LET stmt == Head(mig.run.todo)
        uuids == [id \in {1} |-> NewUuid(used, id)]
        out == Execute(mig.d, stmt, uuids)
        fresh == IF stmt.op = "backfill" /\ stmt.table = "foods"
                 THEN {uuids[f.id] : f \in mig.d.foods} ELSE {}
    IN /\ mig.run.pc = "running" /\ mig.run.todo # <<>>
       /\ mig' = IF out.ok
                 THEN [mig EXCEPT !.d = out.d,
                                  !.run.todo = Tail(@),
                                  !.run.k = IF Tail(mig.run.todo) = <<>> THEN @ + 1 ELSE @]
                 ELSE [mig EXCEPT !.run.pc = "failed"]
       /\ used' = IF out.ok THEN used \cup fresh ELSE used
       /\ UNCHANGED <<db, tz, api_key, mutex, task, clock, wm, lastReq, lastResp, preDb, hist>>

\* the `if` chain is through: Ok(())
Return ==
    /\ mig.run.pc = "running" /\ mig.run.todo = <<>> /\ mig.run.k > LatestVersion
    /\ mig' = [mig EXCEPT !.run.pc = "done"]
    /\ UNCHANGED <<db, tz, api_key, mutex, task, clock, wm, used, lastReq, lastResp, preDb, hist>>

\* the process is killed while migrate runs; what was committed stays
Interrupt ==
    /\ mig.run.pc = "running"
    /\ mig.interrupts < MaxInterrupts
    /\ mig' = [mig EXCEPT !.run.pc = "killed", !.interrupts = @ + 1]
    /\ UNCHANGED <<db, tz, api_key, mutex, task, clock, wm, used, lastReq, lastResp, preDb, hist>>

NextMigrate ==
    \/ Open
    \/ CheckVersion
    \/ ExecuteNext
    \/ Return
    \/ Interrupt

SpecMigrate == InitMigrate /\ [][NextMigrate]_vars

(***************************************************************************)
(* Properties of the migrator (SpecMigrate)                                *)
(***************************************************************************)
\* the versions a + 1 .. b in order
Versions(a, b) == [i \in 1..(b - a) |-> a + i]

\* migrate has returned Ok and the process was never killed
CleanlyDone == mig.run.pc = "done" /\ mig.interrupts = 0

\* C25: running the migrator on a database at schema version v (0 <= v <= 6)
\* applies exactly the migrations v + 1 .. 6, each once and in order, and never
\* fails; the file is then at version 6 with the current schema; running it
\* again applies nothing and changes nothing
C25_MigrationsOnceInOrder ==
    /\ mig.interrupts = 0 => mig.run.pc # "failed"
    /\ CleanlyDone =>
          /\ mig.run.applied = Versions(mig.run.version, LatestVersion)
          /\ mig.d.user_version = LatestVersion
          /\ mig.d.tables = CurrentSchema.tables
          /\ mig.d.indexes = CurrentSchema.indexes
          /\ \A f \in mig.d.foods : f.uuid # EmptyUuid
          /\ mig.start.user_version = LatestVersion =>
                mig.run.applied = <<>> /\ mig.d = mig.start

\* a file at version 1 with the single-row targets table and a food without
\* uuid has been opened twice: the first run made the seven targets and gave
\* the food a uuid, the second run left the file as it was
C25_Witness ==
    /\ CleanlyDone /\ mig.runs = 2 /\ mig.d = mig.start
    /\ Cardinality(mig.d.targets) = 7
    /\ \E f \in mig.d.foods : f.uuid \notin {EmptyUuid, "f1"}

\* a migration was underway when migrate ended with Err or was killed
MigrationCutShort == mig.run.pc \in {"failed", "killed"} /\ mig.run.todo # <<>>

\* C26: when a migration fails or is interrupted after some of its statements
\* have run, none of its effects persist: the database is as it was before the
\* migration began, at the previous version, and migrate can be run again
\* without failing
C26_MigrationAtomic ==
    /\ MigrationCutShort => mig.d = mig.before
    /\ mig.run.pc # "failed"

(***************************************************************************)
(* Authentication (require_auth, cli/src/server.rs)                        *)
(*                                                                         *)
(* An Authorization header value is the sequence of its words: the value   *)
(* "Bearer k1" is <<"Bearer", "k1">>, no header is <<>>.                   *)
(***************************************************************************)
NoHeader == <<>>

\* the key in the api_key file of the data directory, and another one
TheKey == "k1"
WrongKey == "k2"

\* str::strip_prefix("Bearer "): the rest of the value, or None
strip_prefix_bearer(value) ==
    IF Len(value) >= 2 /\ value[1] = "Bearer" THEN Some(Tail(value)) ELSE None

\* a wrong require_auth: any bearer token is let through
require_auth_any_bearer(key, value) ==
    key = None \/ (value # NoHeader /\ strip_prefix_bearer(value) # None)

\* require_auth: TRUE when the request is handed to next.run, FALSE when it is
\* answered 401
require_auth(key, value) ==
    key = None \/
    (/\ value # NoHeader
     /\ strip_prefix_bearer(value) # None
     /\ strip_prefix_bearer(value)[1] = <<key[1]>>)

\* the Authorization headers a request is tried with
Headers ==
    {NoHeader, <<"Bearer", TheKey>>, <<"Bearer", WrongKey>>, <<"bearer", TheKey>>,
     <<"Basic", TheKey>>, <<TheKey>>, <<"Bearer">>, <<"Bearer", TheKey, "x">>}

(***************************************************************************)
(* SpecAuth: the server started with or without --no-auth, its routes      *)
(* behind the route_layer of require_auth                                  *)
(***************************************************************************)
\* the bodies of the routes tried behind the middleware
AuthTargetBody == [calories |-> 2200, protein_pct |-> None, carbs_pct |-> None,
                   fat_pct |-> None]
AuthMealBody == [meal_type |-> "lunch", food_id |-> 1, serving_g |-> 150]
AuthPushBodies ==
    {[EmptyReq(NoTs) EXCEPT !.foods = <<FoodIn("f1", 240, UtcNow(4))>>],
     [EmptyReq(NoTs) EXCEPT !.tombstones = <<TombIn("m1", "meal_entries", UtcNow(4))>>]}

\* start_server: api_key is None under --no-auth, else the key of
\* load_or_create_api_key
InitAuth ==
    /\ tz = [p \in Participants |-> 0]
    /\ db = [p \in Participants |-> IF p = Server THEN LocalSeed ELSE EmptyStore]
    /\ clock = 5
    /\ wm = [c \in Clients |-> NoTs]
    /\ used = FoodUuids \cup {"m1", "r1", "i1", "w1"}
    /\ lastReq = NoReq
    /\ lastResp = NoReq
    /\ preDb = EmptyStore
    /\ hist = HistInit
    /\ mutex = Free
    /\ task = NoTasks
    /\ mig = Migrator(CurrentSchema)
    /\ api_key \in {None, Some(TheKey)}

\* a request with the Authorization header `value` on a route whose handler
\* would leave the store s, hand out n uuids and answer `status`: the handler
\* runs only if require_auth lets the request through
Routed(value, s, n, status, response, op, body, ticks) ==
    LET pass == require_auth(api_key, value)
    IN /\ hist.nLocal < MaxImports
       /\ db' = [db EXCEPT ![Server] = IF pass THEN s ELSE @]
       /\ used' = IF pass THEN used \cup {NewUuid(used, k) : k \in 1..n} ELSE used
       /\ clock' = IF pass THEN clock + ticks ELSE clock
       /\ lastReq' = [status |-> IF pass THEN status ELSE 401, op |-> op,
                      body |-> [authorization |-> value, body |-> body], at |-> clock]
       /\ lastResp' = IF pass THEN response
                      ELSE [error |-> "Invalid or missing API key"]
       /\ preDb' = db[Server]
       /\ hist' = [hist EXCEPT !.nLocal = @ + 1]
       /\ UNCHANGED <<tz, api_key, mutex, task, mig, wm>>

\* PUT /api/targets/0
AuthSetTarget(value) ==
    LET out == rest_set_target(db[Server], 0, AuthTargetBody, LocalNow(Server, clock))
    IN Routed(value, out.s, 0, out.status, NoReq, "set_target", AuthTargetBody, 1)

\* POST /api/meals
AuthCreateMeal(value) ==
    LET out == rest_create_meal(db[Server], AuthMealBody, NewUuid(used, 1),
                                LocalNow(Server, clock))
    IN Routed(value, out.s, out.n, out.status, NoReq, "create_meal", AuthMealBody, 1)

\* DELETE /api/meals/{id}
AuthDeleteMeal(value, id) ==
    Routed(value, rest_delete_meal(db[Server], id), 0,
           IF ById(db[Server].meals, id) # NoRow THEN 204 ELSE 404,
           NoReq, "delete_meal", id, 0)

\* POST /api/sync
AuthPushSync(value, raw) ==
    LET out == push_sync(db[Server], raw, clock)
    IN Routed(value, out.db, 0, out.status, out.delta, "sync", raw, 3)

\* GET /api/export
AuthExport(value) ==
    Routed(value, db[Server], 0, 200, export_all(db[Server], LocalNow(Server, clock)),
           "export", NoReq, 1)

NextAuth ==
    \/ \E value \in Headers : AuthSetTarget(value)
    \/ \E value \in Headers : AuthCreateMeal(value)
    \/ \E value \in Headers : AuthDeleteMeal(value, 1)
    \/ \E value \in Headers : \E raw \in AuthPushBodies : AuthPushSync(value, raw)
    \/ \E value \in Headers : AuthExport(value)

SpecAuth == InitAuth /\ [][NextAuth]_vars

(***************************************************************************)
(* Properties of the authentication (SpecAuth)                             *)
(***************************************************************************)
\* the Authorization header of the last request is "Bearer " followed by the
\* configured key and nothing else
BearsTheKey == lastReq.body.authorization = <<"Bearer", api_key[1]>>

\* C28: when an API key is configured, every request to an API route whose
\* Authorization header is not "Bearer <key>" is answered 401 with the error
\* body and the store is as it was before; a request is handed to a handler
\* without the key only when the server was started without a key
C28_BearerKeyRequired ==
    lastReq.status # 0 =>
        /\ (api_key # None /\ ~BearsTheKey) =>
              /\ lastReq.status = 401
              /\ db[Server] = preDb
              /\ lastResp = [error |-> "Invalid or missing API key"]
        /\ lastReq.status = 401 => (api_key # None /\ ~BearsTheKey)

\* a POST /api/sync with another key than the configured one, answered 401,
\* whose food the store would have taken
C28_Witness ==
    /\ lastReq.status = 401 /\ lastReq.op = "sync" /\ api_key = Some(TheKey)
    /\ lastReq.body.authorization = <<"Bearer", WrongKey>>
    /\ lastReq.body.body.foods # <<>>
    /\ push_sync(db[Server], lastReq.body.body, clock).db # db[Server]

(***************************************************************************)
(* Orchestrated food search: GrubService::search_and_cache and the REST    *)
(* handler search_foods.  A food name is a word over Alphabet; the foods   *)
(* of this part of the model carry the name column, and no brand.          *)
(***************************************************************************)
\* searches in a run of SpecSearch
MaxSearches == 3

Alphabet == <<"a", "b", "c">>

Code(ch) == CHOOSE i \in 1..Len(Alphabet) : Alphabet[i] = ch

\* ORDER BY name: the byte order of the names
RECURSIVE NameLess(_, _)
NameLess(a, b) ==
    IF b = <<>> THEN FALSE
    ELSE IF a = <<>> THEN TRUE
    ELSE IF Head(a) = Head(b) THEN NameLess(Tail(a), Tail(b))
    ELSE Code(Head(a)) < Code(Head(b))

\* name LIKE '%query%' for a query without % or _
Like(name, query) ==
    \E i \in 0..(Len(name) - Len(query)) : SubSeq(name, i + 1, i + Len(query)) = query

\* rows of equal name in rowid order
RECURSIVE SortByName(_)
SortByName(rows) ==
    IF rows = {} THEN <<>>
    ELSE LET first == CHOOSE r \in rows : \A o \in rows :
                          \/ o = r
                          \/ NameLess(r.name, o.name)
                          \/ (r.name = o.name /\ r.id < o.id)
         IN <<first>> \o SortByName(rows \ {first})

\* LIMIT 20
SearchLimit == 20

\* Database::search_foods_local
search_foods_local(s, query) ==
    LET found == SortByName({f \in s.foods : Like(f.name, query)})
    IN SubSeq(found, 1, IF Len(found) < SearchLimit THEN Len(found) ELSE SearchLimit)

\* the outcome `out` of an insert of `food` into s, with the name column of
\* the inserted row
WithName(s, out, food) ==
    LET inserted == out.ok /\ out.s.seq.foods # s.seq.foods
    IN [s |-> [out.s EXCEPT !.foods =
                   {IF inserted /\ f.id = out.id THEN f @@ [name |-> food.name] ELSE f
                    : f \in @}],
        ok |-> out.ok, id |-> out.id, n |-> IF inserted THEN 1 ELSE 0]

\* the loop over the remote foods: upsert_food_by_barcode, and where
\* `fallback` is set and the upsert failed, insert_food without the barcode.
\* acc is [s, cached, n]: the store, the rows handed back, the uuids drawn.
RECURSIVE CacheRemote(_, _, _, _, _)
CacheRemote(acc, remote, fallback, u, now) ==
    IF remote = <<>> THEN acc
    ELSE LET food == Head(remote)
             uuid == NewUuid(u, acc.n + 1)
             up == WithName(acc.s, upsert_food_by_barcode(acc.s, food, uuid, now), food)
             no_barcode == [food EXCEPT !.barcode = NoBarcode]
             ins == WithName(acc.s, insert_food(acc.s, no_barcode, uuid, now), no_barcode)
             out == IF up.ok \/ ~fallback THEN up ELSE ins
         IN CacheRemote(
                [s |-> out.s,
                 cached |-> IF out.ok THEN Append(acc.cached, ById(out.s.foods, out.id))
                            ELSE acc.cached,
                 n |-> acc.n + out.n],
                Tail(remote), fallback, u, now)

IdsOf(foods) == {foods[i].id : i \in 1..Len(foods)}

\* search_and_cache: `seen` holds the ids of the local results only
RECURSIVE PushUnseen(_, _, _)
PushUnseen(all, seen, cached) ==
    IF cached = <<>> THEN all
    ELSE PushUnseen(IF Head(cached).id \in seen THEN all ELSE Append(all, Head(cached)),
                    seen, Tail(cached))

\* search_foods: seen_ids grows with every row pushed
RECURSIVE PushOnce(_, _)
PushOnce(all, foods) ==
    IF foods = <<>> THEN all
    ELSE PushOnce(IF Head(foods).id \in IdsOf(all) THEN all ELSE Append(all, Head(foods)),
                  Tail(foods))

\* the Result of FoodLookupProvider::search and of search_async
ProviderErr == [ok |-> FALSE]
ProviderOk(foods) == [ok |-> TRUE, foods |-> foods]

\* what a search hands back: the foods, or the error of the step that failed
SearchOk(s, n, foods) == [ok |-> TRUE, s |-> s, n |-> n, foods |-> foods]
SearchErr(s) == [ok |-> FALSE, s |-> s, n |-> 0]

\* GrubService::search_and_cache: provider.search(query)? hands an Err on,
\* after the local search and before anything is cached
search_and_cache(s, provider, query, u, now) ==
    LET local == search_foods_local(s, query)
    IN IF ~provider.ok THEN SearchErr(s)
       ELSE LET c == CacheRemote([s |-> s, cached |-> <<>>, n |-> 0],
                                 provider.foods, TRUE, u, now)
            IN SearchOk(c.s, c.n, PushUnseen(local, IdsOf(local), c.cached))

\* GET /api/foods/search: a provider error becomes ApiError::Internal
search_foods(s, provider, query, u, now) ==
    LET local == search_foods_local(s, query)
    IN IF ~provider.ok THEN SearchErr(s)
       ELSE LET c == CacheRemote([s |-> s, cached |-> <<>>, n |-> 0],
                                 provider.foods, FALSE, u, now)
            IN SearchOk(c.s, c.n, PushOnce(PushOnce(<<>>, local), c.cached))

(***************************************************************************)
(* SpecSearch: searches on the server (REST) and on the device C1          *)
(* (GrubService), each with a provider that fails or answers.              *)
(***************************************************************************)
SeedName(uuid) == IF uuid = "f1" THEN <<"a", "b">> ELSE <<"b", "a">>

NamedSeed == [LocalSeed EXCEPT !.foods = {f @@ [name |-> SeedName(f.uuid)] : f \in @}]

\* product_to_food
RemoteFood(name, barcode) ==
    [name |-> name, barcode |-> barcode, calories_per_100g |-> 50,
     default_serving_g |-> 100, source |-> "openfoodfacts"]

ProviderResults ==
    {ProviderErr,
     ProviderOk(<<>>),
     ProviderOk(<<RemoteFood(<<"c", "a">>, "b2"), RemoteFood(<<"c", "a">>, "b2")>>),
     ProviderOk(<<RemoteFood(<<"a">>, NoBarcode)>>)}

Queries == {<<"a">>, <<"c">>}

InitSearch ==
    /\ tz = [p \in Participants |-> 0]
    /\ db = [p \in Participants |-> IF p = "C2" THEN EmptyStore ELSE NamedSeed]
    /\ clock = 5
    /\ wm = [c \in Clients |-> NoTs]
    /\ used = FoodUuids \cup {"m1", "r1", "i1", "w1"}
    /\ lastReq = NoReq
    /\ lastResp = NoReq
    /\ preDb = EmptyStore
    /\ hist = HistInit
    /\ mutex = Free
    /\ task = NoTasks
    /\ mig = Migrator(CurrentSchema)
    /\ api_key = None

\* the search `op` on p came back with `out`
Searched(p, op, query, provider, out) ==
    /\ hist.nLocal < MaxSearches
    /\ db' = [db EXCEPT ![p] = out.s]
    /\ used' = used \cup {NewUuid(used, k) : k \in 1..out.n}
    /\ clock' = clock + 1
    /\ lastReq' = [status |-> IF out.ok THEN 200 ELSE 500, op |-> op,
                   body |-> [p |-> p, q |-> query, provider |-> provider], at |-> clock]
    /\ lastResp' = IF out.ok THEN [foods |-> out.foods]
                   ELSE [error |-> "Internal server error"]
    /\ preDb' = db[p]
    /\ hist' = [hist EXCEPT !.nLocal = @ + 1]
    /\ UNCHANGED <<tz, api_key, mutex, task, mig, wm>>

ServiceSearch(query, provider) ==
    Searched("C1", "search_and_cache", query, provider,
             search_and_cache(db["C1"], provider, query, used, LocalNow("C1", clock)))

RestSearch(query, provider) ==
    Searched(Server, "search_foods", query, provider,
             search_foods(db[Server], provider, query, used, LocalNow(Server, clock)))

NextSearch ==
    \/ \E query \in Queries : \E provider \in ProviderResults :
           ServiceSearch(query, provider)
    \/ \E query \in Queries : \E provider \in ProviderResults :
           RestSearch(query, provider)

SpecSearch == InitSearch /\ [][NextSearch]_vars

ProviderFailed == lastReq.status # 0 /\ ~lastReq.body.provider.ok

\* C30: a search whose call to the provider failed is answered successfully,
\* with the foods of the local search and nothing else.
C30_ProviderFailureYieldsLocal ==
    ProviderFailed =>
        /\ lastReq.status = 200
        /\ lastResp = [foods |-> search_foods_local(preDb, lastReq.body.q)]

(***************************************************************************)
(* SpecPatch: updates of meal entry 1 and of an id no row has, through     *)
(* GrubService::update_meal on the device C1 and PUT /api/meals/{id} on    *)
(* the server, and a POST /sync that carries a tombstone of food f1.       *)
(***************************************************************************)
MaxPatches == 3        \* requests in a run of SpecPatch

\* PUT /api/meals/{id}: 400 for an empty or invalid body, 404 when
\* update_meal_entry fails; the patch carries the lowered meal type
rest_update_meal(s, id, req, now) ==
    LET meal_type == IF req.meal_type = None THEN [ok |-> TRUE, lower |-> ""]
                     ELSE validate_meal_type(req.meal_type[1])
        update == [req EXCEPT !.meal_type =
                      IF req.meal_type = None THEN None ELSE Some(meal_type.lower)]
    IN IF req = NoPatch \/ ~meal_type.ok
          \/ (req.serving_g # None /\ req.serving_g[1] <= 0)
       THEN [status |-> 400, s |-> s]
       ELSE IF get_meal_entry(s, id) = NoRow THEN [status |-> 404, s |-> s]
       ELSE [status |-> 200, s |-> update_meal_entry(s, id, update, now)]

\* GrubService::update_meal: Ok (200 here) or the Err of update_meal_entry
service_update_meal(s, id, update, now) ==
    IF get_meal_entry(s, id) = NoRow THEN [status |-> 500, s |-> s]
    ELSE [status |-> 200, s |-> update_meal_entry(s, id, update, now)]

Patches ==
    {[serving_g |-> g, meal_type |-> m] : g \in {None, Some(250)},
                                          m \in {None, Some("dinner")}}

\* bodies the handler refuses, and one it accepts after lowering the type
PatchBodies ==
    Patches \cup {[NoPatch EXCEPT !.serving_g = Some(0)],
                  [NoPatch EXCEPT !.meal_type = Some("brunch")],
                  [NoPatch EXCEPT !.meal_type = Some("Lunch")]}

FoodTombstoneBody == [EmptyReq(NoTs) EXCEPT !.tombstones = <<TombIn("f1", "foods", UtcNow(4))>>]

InitPatch ==
    /\ tz = [p \in Participants |-> 0]
    /\ db = [p \in Participants |-> LocalSeed]
    /\ clock = 5
    /\ wm = [c \in Clients |-> NoTs]
    /\ used = FoodUuids \cup {"m1", "r1", "i1", "w1"}
    /\ lastReq = NoReq
    /\ lastResp = NoReq
    /\ preDb = EmptyStore
    /\ hist = HistInit
    /\ mutex = Free
    /\ task = NoTasks
    /\ mig = Migrator(CurrentSchema)
    /\ api_key = None

\* the request `op` on p left the store s and was answered `status`
Requested(p, s, status, op, id, update, ticks) ==
    /\ hist.nLocal < MaxPatches
    /\ db' = [db EXCEPT ![p] = s]
    /\ clock' = clock + ticks
    /\ lastReq' = [status |-> status, op |-> op, p |-> p, id |-> id,
                   update |-> update, at |-> clock]
    /\ preDb' = db[p]
    /\ hist' = [hist EXCEPT !.nLocal = @ + 1]
    /\ UNCHANGED <<tz, api_key, mutex, task, mig, wm, used, lastResp>>

ServiceUpdateMeal(c, id, update) ==
    LET out == service_update_meal(db[c], id, update, LocalNow(c, clock))
    IN Requested(c, out.s, out.status, "update_meal", id, update, 1)

RestUpdateMeal(id, req) ==
    LET out == rest_update_meal(db[Server], id, req, LocalNow(Server, clock))
    IN Requested(Server, out.s, out.status, "update_meal", id, req, 1)

\* POST /sync on p's server store with the tombstone of food f1
PatchPushSync ==
    LET out == push_sync(db[Server], FoodTombstoneBody, clock)
    IN Requested(Server, out.db, out.status, "sync", 0, NoPatch, 3)

NextPatch ==
    \/ \E id \in {1, MissingId} : \E update \in Patches : ServiceUpdateMeal("C1", id, update)
    \/ \E id \in {1, MissingId} : \E req \in PatchBodies : RestUpdateMeal(id, req)
    \/ PatchPushSync

SpecPatch == InitPatch /\ [][NextPatch]_vars

\* the last request was an update the handler did not refuse as malformed
UpdateAsked == lastReq.status \notin {0, 400} /\ lastReq.op = "update_meal"

\* the row `m` with the fields of the patch applied and updated_at = now
PatchApplied(m, update, now) ==
    [m EXCEPT !.serving_g = IF update.serving_g = None THEN @ ELSE update.serving_g[1],
              !.meal_type = IF update.meal_type = None THEN @
                            ELSE to_lowercase(update.meal_type[1]),
              !.updated_at = now]

\* C31: an update of a stored meal entry succeeds and leaves the entry with
\* exactly the patch's fields changed and updated_at at the instant of the
\* update, every other row as it was; an update of an id no entry has fails
\* and changes nothing.
C31_PatchChangesExactlyItsFields ==
    UpdateAsked =>
        LET before == ById(preDb.meals, lastReq.id)
            now == LocalNow(lastReq.p, lastReq.at)
        IN IF before = NoRow
           THEN lastReq.status # 200 /\ db[lastReq.p] = preDb
           ELSE /\ lastReq.status = 200
                /\ db[lastReq.p] = [preDb EXCEPT !.meals = (@ \ {before}) \cup
                                       {PatchApplied(before, lastReq.update, now)}]

(***************************************************************************)
(* Recomputation at the end of a merge (SpecMerge)                         *)
(***************************************************************************)
IngredientRows(s, recipe_id) == {i \in s.ings : i.recipe_id = recipe_id}

\* the virtual food of `recipe` holds what recompute_recipe_food would write
Materialized(s, recipe) ==
    LET food == ById(s.foods, recipe.food_id)
        again == ById(recompute_recipe_food(s, recipe.id, NoTs).foods, recipe.food_id)
    IN food # NoRow =>
          /\ food.calories_per_100g = again.calories_per_100g
          /\ food.default_serving_g = again.default_serving_g

\* C32: after a merge, every stored recipe whose ingredient rows the merge
\* changed (inserted, replaced, or deleted by a tombstone) has a virtual food
\* computed from the ingredients the store holds now.
C32_TouchedRecipesRecomputed ==
    lastReq.status = 200 =>
        \A recipe \in db[Server].recipes :
            IngredientRows(preDb, recipe.id) # IngredientRows(db[Server], recipe.id)
                => Materialized(db[Server], recipe)

(***************************************************************************)
(* Last-write-wins on daily targets (SpecMerge)                            *)
(***************************************************************************)
TargetsOf(s, day) == {t \in s.targets : t.day_of_week = day}

\* the incoming target is strictly newer than every stored target of its day,
\* or the store has no updated_at for that day
StrictlyNewerTarget(incoming, local) ==
    \A t \in local :
        \/ t.updated_at \in {NoTs, EmptyTs}
        \/ /\ incoming.updated_at \notin {NoTs, EmptyTs}
           /\ Instant(incoming.updated_at) > Instant(t.updated_at)

\* C33: a merged target replaces the stored target of its day when it is
\* strictly newer or the store has no updated_at for that day, and in every
\* other case the stored target is left as it was.
C33_TargetReplacedOnlyIfNewer ==
    (lastReq.status = 200 /\ Len(lastReq.req.targets) = 1) =>
        LET incoming == lastReq.req.targets[1]
            local == TargetsOf(preDb, incoming.day_of_week)
            after == TargetsOf(db[Server], incoming.day_of_week)
        IN IF StrictlyNewerTarget(incoming, local)
           THEN \A t \in after : t.calories = incoming.calories
           ELSE after = local

(***************************************************************************)
(* Import of a version 2+ file against the sync merge (SpecImport)         *)
(***************************************************************************)
\* the rows and tombstones of an ExportData file as the arguments of
\* apply_remote_changes
AsPush(data) ==
    [since |-> NoTs, foods |-> data.foods, meal_entries |-> data.meal_entries,
     recipes |-> data.recipes, recipe_ingredients |-> data.recipe_ingredients,
     targets |-> targets_to_merge(data), weight_entries |-> data.weight_entries,
     tombstones |-> data.tombstones]

ImportedV2 == lastReq.status = 200 /\ lastReq.op = "import" /\ lastReq.body.version >= 2

\* C34: an accepted import of a file of version 2 or later leaves the store
\* that the sync merge of the same rows and tombstones, run at the same
\* instant on the same store, would leave.
C34_ImportEqualsMerge ==
    ImportedV2 =>
        db[Server] = apply_remote_changes(preDb, AsPush(lastReq.body),
                                          LocalNow(Server, lastReq.at + 1))

(***************************************************************************)
(* Stored tombstones against later incoming rows (SpecMerge)               *)
(***************************************************************************)
\* the stored tombstones of (uuid, table_name)
TombstonesFor(s, uuid, table_name) ==
    {s.tombs[k] : k \in {j \in 1..Len(s.tombs) :
                            /\ s.tombs[j].uuid = uuid
                            /\ s.tombs[j].table_name = table_name}}

\* the incoming row was deleted here before: a tombstone of it is stored that
\* is not older than the row, and the row is absent
DeletedNotOlder(s, rows, incoming, table_name) ==
    /\ ByUuid(rows, incoming.uuid) = NoRow
    /\ \E t \in TombstonesFor(s, incoming.uuid, table_name) :
           Instant(incoming.updated_at) <= Instant(t.deleted_at)

\* C35: a merge does not re-create a row from an incoming row that is not
\* newer than the stored tombstone of its uuid.
C35_TombstonedRowStaysDeleted ==
    lastReq.status = 200 =>
        /\ \A k \in 1..Len(lastReq.req.foods) :
              DeletedNotOlder(preDb, preDb.foods, lastReq.req.foods[k], "foods")
                  => ByUuid(db[Server].foods, lastReq.req.foods[k].uuid) = NoRow
        /\ \A k \in 1..Len(lastReq.req.meal_entries) :
              DeletedNotOlder(preDb, preDb.meals, lastReq.req.meal_entries[k], "meal_entries")
                  => ByUuid(db[Server].meals, lastReq.req.meal_entries[k].uuid) = NoRow
        /\ \A k \in 1..Len(lastReq.req.recipes) :
              DeletedNotOlder(preDb, preDb.recipes, lastReq.req.recipes[k], "recipes")
                  => ByUuid(db[Server].recipes, lastReq.req.recipes[k].uuid) = NoRow

(***************************************************************************)
(* The latest tombstone of a uuid is kept (SpecMerge)                      *)
(***************************************************************************)
\* C36: after a merge the store holds, for every tombstone received, a
\* tombstone of the same uuid and table that is not older than it.
C36_LatestTombstoneKept ==
    lastReq.status = 200 =>
        \A k \in 1..Len(lastReq.req.tombstones) :
            LET incoming == lastReq.req.tombstones[k]
            IN \E t \in TombstonesFor(db[Server], incoming.uuid, incoming.table_name) :
                   Instant(t.deleted_at) >= Instant(incoming.deleted_at)

(***************************************************************************)
(* References between the tables (SpecMerge)                               *)
(***************************************************************************)
\* C37: every meal entry and every recipe ingredient of the server's store
\* points at a stored food, every recipe at a stored food, and every recipe
\* ingredient at a stored recipe.
C37_NoDanglingReferences ==
    LET s == db[Server]
    IN /\ \A m \in s.meals : ById(s.foods, m.food_id) # NoRow
       /\ \A i \in s.ings : ById(s.foods, i.food_id) # NoRow
       /\ \A i \in s.ings : ById(s.recipes, i.recipe_id) # NoRow
       /\ \A r \in s.recipes : ById(s.foods, r.food_id) # NoRow

(***************************************************************************)
(* SpecZones: the /sync endpoints of a server driven by devices in other   *)
(* time zones.  A device stamps its rows and tombstones with Local::now(), *)
(* so they arrive with the device's UTC offset; server_timestamp and the   *)
(* watermarks are UTC.                                                     *)
(***************************************************************************)
ZoneOffsets == {-2, 0, 1}

ZoneTimes == {Rfc3339(x, off) : x \in 2..4, off \in ZoneOffsets}

ZoneBodies ==
    {[EmptyReq(NoTs) EXCEPT !.foods = <<FoodIn("f1", 240, ts)>>] : ts \in ZoneTimes}
    \cup {[EmptyReq(NoTs) EXCEPT !.tombstones = <<TombIn("m1", "meal_entries", ts)>>]
            : ts \in ZoneTimes}

InitZones ==
    /\ tz \in {[p \in Participants |-> IF p = Server THEN off ELSE 0] : off \in {0, 1}}
    /\ db = [p \in Participants |->
                IF p = Server
                THEN apply_remote_changes(EmptyStore, SeedReq, Rfc3339(4, 0))
                ELSE EmptyStore]
    /\ clock = 5
    /\ wm = [c \in Clients |-> NoTs]
    /\ used = FoodUuids \cup {"m1", "r1", "i1", "w1"}
    /\ lastReq = NoReq
    /\ lastResp = NoReq
    /\ preDb = EmptyStore
    /\ hist = HistInit
    /\ mutex = Free
    /\ task = NoTasks
    /\ mig = Migrator(CurrentSchema)
    /\ api_key = None

NextZones ==
    \/ \E raw \in ZoneBodies : PushSync(raw)
    \/ \E since \in {UtcNow(3), UtcNow(4)} : GetSyncDelta(since)

SpecZones == InitZones /\ [][NextZones]_vars

\* a denotes a later instant than b
Later(a, b) == Instant(a) > Instant(b)

\* last-write-wins on the pushed food: it replaces the stored row iff newer
ZoneLww ==
    (lastReq.status = 200 /\ Len(lastReq.req.foods) = 1) =>
        LET incoming == lastReq.req.foods[1]
            local == ByUuid(preDb.foods, incoming.uuid)
            after == ByUuid(db[Server].foods, incoming.uuid)
        IN local # NoRow =>
              IF Later(incoming.updated_at, local.updated_at)
              THEN after.updated_at = incoming.updated_at
              ELSE after = local

\* the pushed tombstone deletes the stored meal entry iff it is newer
ZoneTombstone ==
    (lastReq.status = 200 /\ Len(lastReq.req.tombstones) = 1) =>
        LET tombstone == lastReq.req.tombstones[1]
            local == ByUuid(preDb.meals, tombstone.uuid)
        IN local # NoRow =>
              (ByUuid(db[Server].meals, tombstone.uuid) = NoRow
                  <=> Later(tombstone.deleted_at, local.updated_at))

\* the delta of GET /sync holds the foods changed after the watermark
ZoneDelta ==
    hist.pull # NoPull =>
        {hist.pull.resp.foods[k].uuid : k \in 1..Len(hist.pull.resp.foods)}
            = {f.uuid : f \in {x \in db[Server].foods :
                                  Later(x.updated_at, hist.pull.since)}}

\* C38: last-write-wins decisions, tombstone application and delta
\* extraction order two timestamps by the instants they denote, whatever
\* UTC offsets the two strings carry.
C38_TimestampsOrderedByInstant == ZoneLww /\ ZoneTombstone /\ ZoneDelta

(***************************************************************************)
(* SpecBarcode: concurrent GET /api/foods/barcode/{code} for one code.     *)
(* The handler holds the state.db mutex while it reads the cache and while *)
(* it stores the product, and not while it awaits the provider; each of    *)
(* the two locked blocks is one step.                                      *)
(***************************************************************************)
Lookups == {"l1", "l2", "l3"}

TheCode == "b1"

\* what lookup_barcode_async may hand back for TheCode: Err, Ok(None), a
\* product whose code is the one asked for, a product without a code, a
\* product under another code
BarcodeAnswers ==
    {ProviderErr, ProviderOk(<<>>),
     ProviderOk(<<RemoteFood(<<"a">>, TheCode)>>),
     ProviderOk(<<RemoteFood(<<"a">>, NoBarcode)>>),
     ProviderOk(<<RemoteFood(<<"a">>, "b2")>>)}

InitBarcode ==
    /\ tz = [p \in Participants |-> 0]
    /\ db = [p \in Participants |-> IF p = Server THEN LocalSeed ELSE EmptyStore]
    /\ clock = 5
    /\ wm = [c \in Clients |-> NoTs]
    /\ used = FoodUuids \cup {"m1", "r1", "i1", "w1"}
    /\ lastReq = NoReq
    /\ lastResp = NoReq
    /\ preDb = EmptyStore
    /\ hist = HistInit
    /\ mutex = Free
    /\ task = [l \in Lookups |-> [pc |-> "new"]]
    /\ mig = Migrator(CurrentSchema)
    /\ api_key = None

\* the lookups already answered with a food
Answered == {k \in Lookups : task[k].pc = "done" /\ task[k].status = 200}

\* the first locked block: get_food_by_barcode; a hit is the response
CheckCache(l) ==
    LET cached == get_food_by_barcode(db[Server], TheCode)
    IN /\ task[l].pc = "new"
       /\ task' = [task EXCEPT ![l] =
                      IF cached # NoRow
                      THEN [pc |-> "done", status |-> 200, food |-> cached,
                            called |-> FALSE, after |-> Answered]
                      ELSE [pc |-> "await", after |-> Answered]]
       /\ UNCHANGED <<db, tz, api_key, mutex, mig, wm, used, clock, lastReq, lastResp,
                      preDb, hist>>

\* lookup_barcode_async returns: Err is 500, Ok(None) is 404
ProviderAnswers(l, answer) ==
    /\ task[l].pc = "await"
    /\ task' = [task EXCEPT ![l] =
                   IF ~answer.ok
                   THEN [pc |-> "done", status |-> 500, food |-> NoRow,
                         called |-> TRUE, after |-> @.after]
                   ELSE IF answer.foods = <<>>
                   THEN [pc |-> "done", status |-> 404, food |-> NoRow,
                         called |-> TRUE, after |-> @.after]
                   ELSE [pc |-> "store", remote |-> answer.foods[1], after |-> @.after]]
    /\ UNCHANGED <<db, tz, api_key, mutex, mig, wm, used, clock, lastReq, lastResp,
                   preDb, hist>>

\* the second locked block: upsert_food_by_barcode(&remote)
StoreProduct(l) ==
    /\ task[l].pc = "store"
    /\ LET out == upsert_food_by_barcode(db[Server], task[l].remote, NewUuid(used, 1),
                                         LocalNow(Server, clock))
       IN /\ db' = [db EXCEPT ![Server] = out.s]
          /\ used' = IF out.s # db[Server] THEN used \cup {NewUuid(used, 1)} ELSE used
          /\ clock' = IF out.s # db[Server] THEN clock + 1 ELSE clock
          /\ task' = [task EXCEPT ![l] =
                         [pc |-> "done", status |-> IF out.ok THEN 200 ELSE 500,
                          food |-> IF out.ok THEN ById(out.s.foods, out.id) ELSE NoRow,
                          called |-> TRUE, after |-> @.after]]
    /\ UNCHANGED <<tz, api_key, mutex, mig, wm, lastReq, lastResp, preDb, hist>>

NextBarcode ==
    \/ \E l \in Lookups : CheckCache(l)
    \/ \E l \in Lookups : \E answer \in BarcodeAnswers : ProviderAnswers(l, answer)
    \/ \E l \in Lookups : StoreProduct(l)

SpecBarcode == InitBarcode /\ [][NextBarcode]_vars

\* the lookups that are over and for which a product was there: cached, or
\* found by the provider
Found == {l \in Lookups : task[l].pc = "done" /\ task[l].status \notin {404, 500}}

WithTheCode(s) == {f \in s.foods : f.barcode = TheCode}

\* C39: lookups of one barcode that overlap on a cache miss all succeed with
\* the same food row, which is the only stored row of that barcode, and a
\* lookup that starts after one was answered does not call the provider.
C39_ConcurrentLookupsShareOneRow ==
    \A l \in Found :
        /\ WithTheCode(db[Server]) = {task[l].food}
        /\ \A k \in Found : task[k].food = task[l].food
        /\ task[l].called => task[l].after = {}

(***************************************************************************)
(* SpecQuiesce: the server and two clients that start with the same rows,  *)
(* edit them locally through GrubService, and sync in rounds: in a round   *)
(* every client syncs once, in either order.  A client that holds changes  *)
(* newer than its watermark sends them (POST /sync), another one pulls     *)
(* (GET /sync); both merge the response and keep its server_timestamp.     *)
(* The edits are finitely many; every edit starts the count of rounds      *)
(* afresh.                                                                 *)
(***************************************************************************)
MaxRounds == 4         \* rounds of sync after the last edit in a run of SpecQuiesce

\* the local edits of a run, each made at most once
Edits == {[p |-> "C1", op |-> "add_ingredient"],
          [p |-> "C2", op |-> "set_portions"],
          [p |-> "C2", op |-> "delete_meal"]}

InitQuiesce ==
    /\ tz \in {[p \in Participants |->
                    IF p = "C1" THEN east ELSE IF p = "C2" THEN west ELSE 0]
                : east \in {0, 1}, west \in {0, -2}}
    /\ db = [p \in Participants |-> LocalSeed]
    /\ clock = 5
    /\ wm = [c \in Clients |-> UtcNow(4)]
    /\ used = FoodUuids \cup {"m1", "r1", "i1", "w1"}
    /\ lastReq = NoReq
    /\ lastResp = NoReq
    /\ preDb = EmptyStore
    /\ hist = HistInit
    /\ mutex = Free
    /\ task = [c \in Clients |-> 0]
    /\ mig = Migrator(CurrentSchema)
    /\ api_key = None

\* the store of e.p after the edit e at `now`: GrubService::add_recipe_ingredient
\* (100 g of f1 into r1), ::set_recipe_portions (r1 in two portions) and
\* ::delete_meal (m1)
Edited(s, e, uuid, now) ==
    CASE e.op = "add_ingredient" ->
             add_recipe_ingredient(s, get_recipe_by_uuid(s, "r1").id,
                                   get_food_by_uuid(s, "f1").id, 100, uuid, now)
      [] e.op = "set_portions" ->
             set_recipe_portions(s, get_recipe_by_uuid(s, "r1").id, 2, now)
      [] e.op = "delete_meal" ->
             service_delete_meal(s, MealId(s, "m1"), now)

\* a participant edits its store while some client has not synced since the
\* edit before
LocalEdit(e) ==
    /\ e \notin hist.ops
    /\ \E c \in Clients : task[c] = 0
    /\ get_recipe_by_uuid(db[e.p], "r1") # NoRow
    /\ get_food_by_uuid(db[e.p], "f1") # NoRow
    /\ db' = [db EXCEPT ![e.p] = Edited(@, e, NewUuid(used, 1), LocalNow(e.p, clock))]
    /\ used' = IF e.op = "add_ingredient" THEN used \cup {NewUuid(used, 1)} ELSE used
    /\ clock' = clock + 1
    /\ hist' = [hist EXCEPT !.nLocal = @ + 1, !.ops = @ \cup {e}]
    /\ task' = [c \in Clients |-> 0]
    /\ UNCHANGED <<tz, api_key, mutex, mig, wm, lastReq, lastResp, preDb>>

\* no row and no tombstone in a delta or a push body
EmptyDelta(d) ==
    /\ d.foods = <<>> /\ d.meal_entries = <<>> /\ d.recipes = <<>>
    /\ d.recipe_ingredients = <<>> /\ d.targets = <<>> /\ d.weight_entries = <<>>
    /\ d.tombstones = <<>>

\* c is to sync next: it has rounds left and is not a round ahead of the other
Turn(c) == task[c] < MaxRounds /\ \A x \in Clients : task[c] <= task[x]

\* c holds changes newer than its watermark and sends them; it merges the
\* response and moves its watermark only when the answer is 200
RoundPush(c) ==
    LET raw == PushBody(c)
        out == push_sync(db[Server], raw, clock)
    IN /\ Turn(c)
       /\ ~EmptyDelta(raw)
       /\ db' = [db EXCEPT
                   ![Server] = out.db,
                   ![c] = IF out.status = 200
                          THEN apply_remote_changes(@, out.delta, LocalNow(c, clock + 3))
                          ELSE @]
       /\ wm' = [wm EXCEPT ![c] = IF out.status = 200 THEN out.delta.server_timestamp
                                  ELSE @]
       /\ clock' = clock + 4
       /\ lastReq' = [status |-> out.status, raw |-> raw, req |-> out.req, at |-> clock]
       /\ lastResp' = out.delta
       /\ task' = [task EXCEPT ![c] = @ + 1]
       /\ UNCHANGED <<tz, api_key, mutex, mig, used, preDb, hist>>

\* c holds no change newer than its watermark and pulls
RoundPull(c) ==
    LET resp == get_sync_delta(db[Server], wm[c], clock)
    IN /\ Turn(c)
       /\ EmptyDelta(PushBody(c))
       /\ db' = [db EXCEPT ![c] = apply_remote_changes(@, resp, LocalNow(c, clock + 1))]
       /\ wm' = [wm EXCEPT ![c] = resp.server_timestamp]
       /\ clock' = clock + 2
       /\ lastReq' = [status |-> 200, raw |-> PushBody(c), req |-> PushBody(c), at |-> clock]
       /\ lastResp' = resp
       /\ task' = [task EXCEPT ![c] = @ + 1]
       /\ UNCHANGED <<tz, api_key, mutex, mig, used, preDb, hist>>

NextQuiesce ==
    \/ \E e \in Edits : LocalEdit(e)
    \/ \E c \in Clients : RoundPush(c)
    \/ \E c \in Clients : RoundPull(c)

\* the sync of c, push or pull
Round(c) == RoundPush(c) \/ RoundPull(c)

\* Weak fairness of Round(c), with ENABLED <<Round(c)>>_vars written as the
\* state predicate it is equal to: exactly one of RoundPush(c) and
\* RoundPull(c) can be taken when it is c's turn, and it raises task[c].
FairRound(c) == []<>(~Turn(c)) \/ []<><<Round(c)>>_vars

\* every client goes on syncing; nothing obliges a participant to edit
SpecQuiesce ==
    /\ InitQuiesce
    /\ [][NextQuiesce]_vars
    /\ \A c \in Clients : FairRound(c)

\* a further sync of any client, push or pull, would carry nothing either way
\* and would leave both stores as they are
Quiet ==
    \A c \in Clients :
        LET out == push_sync(db[Server], PushBody(c), clock)
        IN /\ EmptyDelta(PushBody(c))
           /\ EmptyDelta(get_sync_delta(db[Server], wm[c], clock))
           /\ out.status = 200
           /\ out.db = db[Server]
           /\ apply_remote_changes(db[c], out.delta, LocalNow(c, clock + 3)) = db[c]

====
